---- MODULE Spec2Model ----
(***************************************************************************)
(* A model of the translation pipeline of pdfDownloader.                   *)
(*                                                                         *)
(*   translateMd.js   the batched orchestrator: for every document one     *)
(*                    task per language, run in groups of                  *)
(*                    CONCURRENCY_LIMIT, chunked for large documents.      *)
(*   part_001         the formatting script: one task per Markdown file,   *)
(*                    run in groups of FORMAT_CONCURRENCY_LIMIT.           *)
(*   translatePdf.js  the sequential translator of PDF files: one call    *)
(*                    per language with the whole text.                    *)
(*   splitTextIntoChunks, adjustHtmlImagePaths                             *)
(*                    the helper functions of translateMd.js, on texts    *)
(*                    that are sequences of characters, also evaluated on *)
(*                    their own.                                           *)
(*                                                                         *)
(* The file system, the translation service and the event loop are the    *)
(* environment: every await of the code is a suspension point, and the    *)
(* operation awaited completes (with success or with an error) in a later *)
(* step, in any order relative to the other operations in flight.         *)
(***************************************************************************)
EXTENDS Integers, Sequences, FiniteSets, TLC

\* ------------------------------------------------------------ constants

LARGE_FILE_THRESHOLD == 10000

CHUNK_SIZE == 10000

CONCURRENCY_LIMIT == 10

FORMAT_CONCURRENCY_LIMIT == 5

\* The number of times the orchestrator is launched against one output tree.
MaxRuns == 2

\* The number of documents in the source directory.
NumDocs == 2

\* The number of documents in the source directory of the relaunched script.
NumRerunDocs == 1

\* The number of Markdown files handed to the formatting script.
NumFormatFiles == 6

\* The number of entries of the long language map.
NumBatchLangs == 11

\* The longest text handed to splitTextIntoChunks on its own, and the
\* largest maxSize.
MaxTextLen == 6

MaxChunkSize == 3

\* How far below 0 the maxSize of a call of splitTextIntoChunks goes, and
\* the number of chunks after which a loop that does not end is left alone.
MaxDeficit == 1

MaxChunks == 8

\* The number of parts of the content of a response.
MaxTokens == 3

\* The number of img tags of the markup handed to adjustHtmlImagePaths.
MaxTags == 2

\* The number of processes that run translateMd.js on one output tree.
NumProcs == 2

Min(a, b) == IF a < b THEN a ELSE b

Max(S) == CHOOSE x \in S : \A y \in S : y <= x

\* ------------------------------------------------------------ text

\* A text is a sequence of characters; JS indices are 0-based, so the
\* character at JS index p is text[p + 1].

\* A substring that stops one character early.
SubstringShort(text, from, to) == SubSeq(text, from + 1, Min(to, Len(text)) - 1)

\* The concatenation of a sequence of texts, in index order.
RECURSIVE Concat(_)
Concat(cs) == IF cs = <<>> THEN <<>> ELSE Head(cs) \o Concat(Tail(cs))

\* An index argument of substring: a negative one counts as 0, one beyond
\* the text as its length.
ClampIndex(text, n) == IF n < 0 THEN 0 ELSE Min(n, Len(text))

\* String.prototype.substring(from, to): the characters between the two
\* clamped indices, the smaller one first.
Substring(text, from, to) ==
    LET a == ClampIndex(text, from)
        b == ClampIndex(text, to)
    IN  SubSeq(text, Min(a, b) + 1, IF a < b THEN b ELSE a)

\* String.prototype.lastIndexOf(pat, fromIndex): the largest index p <=
\* fromIndex at which pat occurs, -1 when there is none; a negative
\* fromIndex counts as 0.
LastIndexOf(text, pat, fromIndex) ==
    LET hits == { p \in 0..Min(IF fromIndex < 0 THEN 0 ELSE fromIndex,
                               Len(text) - Len(pat)) :
                    \A j \in 1..Len(pat) : text[p + j] = pat[j] }
    IN  IF hits = {} THEN -1 ELSE Max(hits)

\* String.prototype.startsWith, which tells the letter cases apart.
StartsWith(s, pat) == Len(s) >= Len(pat) /\ SubSeq(s, 1, Len(pat)) = pat

\* String.prototype.endsWith.
EndsWith(s, pat) ==
    Len(s) >= Len(pat) /\ SubSeq(s, Len(s) - Len(pat) + 1, Len(s)) = pat

\* String.prototype.trim: the text without the blanks and line breaks at
\* its two ends.
Trim(s) ==
    LET inked == { p \in DOMAIN s : s[p] \notin {" ", "\n"} }
    IN  IF inked = {} THEN <<>>
        ELSE SubSeq(s, CHOOSE p \in inked : \A q \in inked : p <= q, Max(inked))

\* Lines 133-152: the position of the cut for the chunk that starts at
\* startIndex, when the rest of the text is longer than maxSize.
SplitPos(text, startIndex, endIndex) ==
    LET para == LastIndexOf(text, <<"\n", "\n">>, endIndex)
        sent == LastIndexOf(text, <<".", " ">>, endIndex)
        line == LastIndexOf(text, <<"\n">>, endIndex)
    IN  IF para > startIndex THEN para + 2
        ELSE IF sent > startIndex THEN sent + 2
        ELSE IF line > startIndex THEN line + 1
        ELSE endIndex

RECURSIVE SplitFrom(_, _, _)
SplitFrom(text, maxSize, startIndex) ==
    IF startIndex >= Len(text) THEN <<>>
    ELSE IF startIndex + maxSize >= Len(text)
         THEN <<Substring(text, startIndex, Len(text))>>
    ELSE LET splitPos == SplitPos(text, startIndex, startIndex + maxSize)
         IN  <<Substring(text, startIndex, splitPos)>>
                 \o SplitFrom(text, maxSize, splitPos)

splitTextIntoChunks(text, maxSize) == SplitFrom(text, maxSize, 0)

\* The documents the source directory may hold.  1: a short document;
\* then three documents of 25,000 characters, 2: with one paragraph break,
\* 3: with two paragraph breaks, 4: without any boundary.  Then the
\* documents around the threshold, 5: of exactly LARGE_FILE_THRESHOLD
\* characters, 6: of one character more, 7: of one character more, the
\* last one a line break.
Corpus ==
    << <<"a", ".", " ", "b", "\n", "c">>,
       [i \in 1..25000 |-> IF i \in {7001, 7002} THEN "\n" ELSE "a"],
       [i \in 1..25000 |-> IF i \in {5001, 5002, 10501, 10502} THEN "\n" ELSE "a"],
       [i \in 1..25000 |-> "a"],
       [i \in 1..LARGE_FILE_THRESHOLD |-> "a"],
       [i \in 1..(LARGE_FILE_THRESHOLD + 1) |-> "a"],
       [i \in 1..(LARGE_FILE_THRESHOLD + 1) |->
           IF i = LARGE_FILE_THRESHOLD + 1 THEN "\n" ELSE "a"] >>

\* The chunks of every document of the corpus (line 286).
ChunkCount == [k \in DOMAIN Corpus |-> Len(splitTextIntoChunks(Corpus[k], CHUNK_SIZE))]

\* The largest number of chunks of a document of the corpus.
MaxCalls == Max({ ChunkCount[k] : k \in DOMAIN Corpus })

\* Line 248.
isLargeFile(k) == Len(Corpus[k]) > LARGE_FILE_THRESHOLD

\* A comparison of the instruction as it is spelled, without toLowerCase().
ToLowerCaseNone(s) == s

\* String.prototype.toLowerCase on the instruction strings of the model.
ToLowerCase(s) ==
    CASE s = "Don't Translate" -> "don't translate"
      [] s = "EN" -> "en"
      [] OTHER -> s

\* ------------------------------------------------------------ state

VARIABLES
    script,             \* which script was launched: "translateMd", "formatMd" or
                        \* "translatePdf"; "none" while a helper is evaluated on its own
    configJson,         \* config.json: "missing" (unreadable or not JSON),
                        \* "incomplete" (a required field is absent) or "complete"
    translationFormats, \* Object.entries(translationFormats): <<[code, instr], ...>>
    files,              \* processableFiles: <<[text, fileType], ...>>
    fs,                 \* the output tree: fs[code, d] is the content at <outputBaseDir>/<code>/<file d>
    dirs,               \* the language directories that exist under outputBaseDir
    mainPc,             \* where main() is suspended
    fileIdx,            \* the document the file loop is at (1-based)
    batchI,             \* i of the batch loop (0-based, line 321)
    tasks,              \* translationTasks of the current document: tasks[l] for language entry l
    settled,            \* the results Promise.allSettled has delivered for the current document
    run,                \* the number of the current launch
    fsAtStart,          \* the output tree when the current launch started
    unreadable,         \* the files whose fs.readFile has failed in the current launch
    helper              \* the call of a helper function that is being evaluated

vars == <<script, configJson, translationFormats, files, fs, dirs, mainPc, fileIdx,
          batchI, tasks, settled, run, fsAtStart, unreadable, helper>>

\* What loadConfig() may find in config.json.
ConfigFiles == {"missing", "incomplete", "complete"}

\* translateMd.js lines 12-16: config.json is read and parsed, and holds
\* apiKey, apiEndpoint and model.
configOk == configJson = "complete"

\* translatePdf.js lines 10-12: config.json is read and parsed; no field
\* is looked at.
pdfConfigOk == configJson # "missing"

DocIds == DOMAIN files

LangIds == 1..Len(translationFormats)

\* All tasks of a document write into the directory of the source language.
outputFilePathFlat(code, d) == <<"en", d>>

\* Lines 253-254: path.join(outputBaseDir, langCode, baseName), as the
\* directory of the language and the document whose name the file has.
outputFilePath(code, d) == <<code, d>>

\* What a path of the output tree holds.
NoFile == [kind |-> "none", text |-> 0, lang |-> "", pieces |-> <<>>, adjusted |-> FALSE]

OldFile == [kind |-> "old", text |-> 0, lang |-> "", pieces |-> <<>>, adjusted |-> FALSE]

\* fs.copyFile(sourceFilePath, outputFilePath): the text of the source, verbatim.
SourceCopy(d) ==
    [kind |-> "source", text |-> files[d].text, lang |-> "", pieces |-> <<>>, adjusted |-> FALSE]

Exists(tree, code, d) == tree[code, d] # NoFile

\* A task that was not constructed (its document is not read yet, or unreadable).
NoTask ==
    [pc |-> "None", doc |-> 0, i |-> 0, err |-> "", starts |-> 0, calls |-> <<>>,
     inflight |-> {}, wrote |-> 0, translatedChunks |-> <<>>]

\* Lines 252-315: the task constructed for file d; its closure holds the
\* paths of d.  Beside its position (pc) the record keeps what the task has
\* done: i results received, calls dispatched (in order), calls in flight,
\* the number of times it was started, and of copies and writes issued.
PendingTask(d) == [NoTask EXCEPT !.pc = "Pending", !.doc = d]

Terminal == {"SkippedExists", "SkippedNoTranslate", "Done", "Failed"}

IsSettled(t) == t.pc \in Terminal

\* The language maps of translationformats.json the model runs with.
ShortMaps ==
    { << [code |-> "en", instr |-> "keep the original"],
         [code |-> "fr", instr |-> "formal"],
         [code |-> "de", instr |-> "formal"] >>,
      << [code |-> "fr", instr |-> "formal"],
         [code |-> "en", instr |-> "don't translate"] >>,
      << [code |-> "de", instr |-> "Don't Translate"],
         [code |-> "fr", instr |-> "formal"] >> }

\* The language codes of the long map, in the order of its entries.
BatchCodes ==
    <<"es", "it", "pt", "nl", "sv", "da", "fi", "pl", "cs", "fr", "en", "de", "el">>

\* The long map: NumBatchLangs entries, more than CONCURRENCY_LIMIT.
LongMap ==
    [n \in 1..NumBatchLangs |->
        [code |-> BatchCodes[n],
         instr |-> IF BatchCodes[n] = "en" THEN "keep the original" ELSE "formal"]]

\* The directory of the formatting script's output, formatted_md.
FormattedDir == "formatted_md"

AllCodes == { BatchCodes[n] : n \in DOMAIN BatchCodes } \cup {FormattedDir}

\* The kinds of file the source directory may list.
DocKinds ==
    { [text |-> 1, fileType |-> "markdown"],
      [text |-> 2, fileType |-> "html"] }

\* The file names the trees of the model are defined on.
MaxFiles == Max({NumDocs, NumRerunDocs, NumFormatFiles})

EmptyTree == [p \in AllCodes \X (1..MaxFiles) |-> NoFile]

\* The output tree an interrupted earlier launch has left: the files of the
\* languages in codes, for the documents in docs.
LeftTree(codes, docs) ==
    [p \in AllCodes \X (1..MaxFiles) |->
        IF p[1] \in codes /\ p[2] \in docs THEN OldFile ELSE NoFile]

\* The language directories a tree needs.
DirsOf(tree) == { c \in AllCodes : \E d \in 1..MaxFiles : Exists(tree, c, d) }

NoTasks == [l \in LangIds |-> NoTask]

\* No helper function is being evaluated on its own.
NoCall == [fn |-> "none"]

\* The state of a script that was just launched.
Fresh ==
    /\ unreadable = {}
    /\ dirs = DirsOf(fs)
    /\ mainPc = "loadConfig"
    /\ fileIdx = 0
    /\ batchI = 0
    /\ tasks = [l \in 1..Len(translationFormats) |-> NoTask]
    /\ settled = <<>>
    /\ run = 1
    /\ fsAtStart = fs

Init ==
    /\ script = "translateMd"
    /\ configJson \in ConfigFiles
    /\ translationFormats \in ShortMaps
    /\ files \in [1..NumDocs -> DocKinds]
    /\ fs \in {EmptyTree, LeftTree({"en"}, 1..NumDocs) }
    /\ Fresh
    /\ helper = NoCall

\* ------------------------------------------------------------ the scheduler

\* A slice that is one task too long: slice(i, i + limit + 1).
BatchSliceTooLong(n, i, limit) == { l \in 1..n : i < l /\ l <= i + limit + 1 }

\* Line 322: translationTasks.slice(i, i + limit), as the 1-based positions
\* of the tasks of the batch.
BatchSlice(n, i, limit) == { l \in 1..n : i < l /\ l <= i + limit }

\* Line 324: task() runs the task up to its first await (fs.mkdir, line 259).
StartTask(t) == [t EXCEPT !.pc = "mkdir", !.starts = @ + 1]

StartBatch(tk, i, limit) ==
    [l \in DOMAIN tk |->
        IF l \in BatchSlice(Len(tk), i, limit) THEN StartTask(tk[l]) ELSE tk[l]]

\* A batch loop that does not await its batch.
BatchNotAwaited(tk, i, limit) == TRUE

\* Line 325: Promise.allSettled(batchPromises) resolves once every promise
\* of the batch has settled.
BatchDone(tk, i, limit) == \A l \in BatchSlice(Len(tk), i, limit) : IsSettled(tk[l])

\* A loop step that is one too long: i += limit + 1.
NextBatchISkips(i, limit) == i + limit + 1

\* Line 321: i += CONCURRENCY_LIMIT.
NextBatchI(i, limit) == i + limit

\* The promise of a task: the body of the task is one try/catch (lines
\* 258-313), so the promise is fulfilled with undefined also when the task
\* failed.
TaskPromise(t) == [status |-> "fulfilled", value |-> "undefined"]

\* Promise.all in the place of Promise.allSettled, over tasks that let
\* their error escape: the promise of the batch is rejected when a task
\* has failed.
BatchPromiseAll(tk, i, limit) ==
    IF \E l \in BatchSlice(Len(tk), i, limit) : tk[l].pc = "Failed"
    THEN [status |-> "rejected", value |-> <<>>]
    ELSE [status |-> "fulfilled",
          value |-> [k \in 1..Cardinality(BatchSlice(Len(tk), i, limit)) |->
                        [status |-> "fulfilled", value |-> "undefined"]]]

\* Line 325: the promise Promise.allSettled returns is fulfilled, with an
\* array of one entry per promise of the batch.
BatchPromise(tk, i, limit) ==
    [status |-> "fulfilled",
     value |-> [k \in 1..Cardinality(BatchSlice(Len(tk), i, limit)) |->
                   TaskPromise(tk[Min(i + k, Len(tk))])]]

\* ------------------------------------------------------------ the task

\* The order of the checks in part_002 (lines 141-163): the copy of the
\* source language first, the existence check last.
DecideCopyFirst(exists, instr, code) ==
    IF code = "en" THEN "copy"
    ELSE IF ToLowerCase(instr) = "don't translate" THEN "SkippedNoTranslate"
    ELSE IF exists THEN "SkippedExists"
    ELSE "translate"

\* A task without the existence check of lines 261-268.
DecideNoGuard(exists, instr, code) ==
    IF ToLowerCase(instr) = "don't translate" THEN "SkippedNoTranslate"
    ELSE IF code = "en" THEN "copy"
    ELSE "translate"

\* Lines 261-280: what the task does once fs.access has answered.
Decide(exists, instr, code) ==
    IF exists THEN "SkippedExists"
    ELSE IF ToLowerCase(instr) = "don't translate" THEN "SkippedNoTranslate"
    ELSE IF code = "en" THEN "copy"
    ELSE "translate"

\* A task that sends the whole document a second time.
PlanTwice(k) == <<0, 0>>

\* A task that sends every document whole, large or not.
PlanWhole(k) == <<0>>

\* Lines 284-300: the translation calls of a document, in order: one per
\* chunk (numbered from 1) for a large file, else one for the whole text
\* (numbered 0).
Plan(k) == IF isLargeFile(k) THEN [j \in 1..ChunkCount[k] |-> j] ELSE <<0>>

\* A chunk loop that does not await: every remaining call is dispatched
\* at once, as Promise.all(chunks.map(...)) would.
NextCallsAtOnce(plan, i) == SubSeq(plan, i + 1, Len(plan))

\* Lines 290-293 and 299: the calls dispatched when i results are in.
NextCalls(plan, i) == IF i < Len(plan) THEN <<plan[i + 1]>> ELSE <<>>

\* The text translateText returns for call c of a task: the translation
\* of chunk c, or of the whole document for c = 0.
translatedChunk(c) == <<"whole", "piece 1", "piece 2", "piece 3", "piece 4">>[c + 1]

\* A join that leaves out the last part.
JoinButLast(parts, sep) ==
    [n \in 1..(2 * (Len(parts) - 1) - 1) |-> IF n % 2 = 1 THEN parts[(n + 1) \div 2] ELSE sep]

\* Array.prototype.join(sep): the parts in the order of the array, with
\* sep between two neighbours.
Join(parts, sep) ==
    [n \in 1..(2 * Len(parts) - 1) |-> IF n % 2 = 1 THEN parts[(n + 1) \div 2] ELSE sep]

\* A rewrite of the image paths of every translation, Markdown included.
AdjustsEveryFile(fileType, langCode) == TRUE

\* Line 303: the image paths are adjusted for an HTML file in a language
\* other than 'en'.
AdjustsPaths(fileType, langCode) == fileType = "html" /\ langCode # "en"

\* Lines 295-299: finalTranslation: the translated chunks joined with a
\* blank line for a large file, else the translation of the whole text.
finalTranslation(k, translatedChunks) ==
    IF isLargeFile(k) THEN Join(translatedChunks, "\n\n") ELSE translatedChunks

\* Lines 295-308: what task t writes once every call has returned.
Translation(d, code, t) ==
    [kind |-> "translation", text |-> files[d].text, lang |-> code,
     pieces |-> finalTranslation(files[d].text, t.translatedChunks),
     adjusted |-> AdjustsPaths(files[d].fileType, code)]

\* Lines 85-90 and 111-118: translateText returns the content of the
\* response, and throws on a transport or service error and on a response
\* whose content is empty after trim().
Responses == {"error", "blank", "text"}

\* Lines 93-95: the fences looked for at the two ends of the content. The
\* backquote of the source is written as the character ' in this module.
startFenceMd == <<"'", "'", "'", "m", "a", "r", "k", "d", "o", "w", "n">>

startFenceHtml == <<"'", "'", "'", "h", "t", "m", "l">>

endFence == <<"'", "'", "'">>

\* Lines 97-104: a content that starts with a fence and ends with the end
\* fence is cut down to what is between them, trimmed; nothing is tested
\* after that.
StripFences(content) ==
    [threw |-> FALSE,
     value |->
        IF StartsWith(content, startFenceMd) /\ EndsWith(content, endFence)
        THEN Trim(Substring(content, Len(startFenceMd), Len(content) - Len(endFence)))
        ELSE IF StartsWith(content, startFenceHtml) /\ EndsWith(content, endFence)
        THEN Trim(Substring(content, Len(startFenceHtml), Len(content) - Len(endFence)))
        ELSE IF StartsWith(content, endFence) /\ EndsWith(content, endFence)
        THEN Trim(Substring(content, Len(endFence), Len(content) - Len(endFence)))
        ELSE content]

\* A test of line 88 that lets every content through.
NoContent(content) == FALSE

\* Line 88: !translatedContent: the trimmed content is the empty string.
IsEmptyContent(content) == content = <<>>

\* Lines 85-108 for the content of a response that has arrived: the
\* content is trimmed; when empty the function throws (lines 88-90 and the
\* catch of lines 111-118), else it returns the content without fences.
translatedContent(content) ==
    IF IsEmptyContent(Trim(content))
    THEN [threw |-> TRUE, value |-> <<>>]
    ELSE StripFences(Trim(content))

\* The content of a response that is blank, and of one that is a text.
ResponseContent(resp) == IF resp = "blank" THEN <<" ", "\n">> ELSE <<"x">>

\* Lines 64-118: translateText throws when the request fails and when the
\* content of the response is empty after trim().
translateTextThrows(resp) ==
    resp = "error" \/ translatedContent(ResponseContent(resp)).threw

\* An error that ends the batch: the tasks of the document that have not
\* settled are abandoned.
CatchErrorAborts(tk, l, why) ==
    [m \in DOMAIN tk |->
        IF m = l THEN [tk[m] EXCEPT !.pc = "Failed", !.err = why]
        ELSE IF IsSettled(tk[m]) THEN tk[m]
        ELSE [tk[m] EXCEPT !.pc = "Failed", !.err = "aborted", !.inflight = {}]]

\* A catch that reports the task as done.
CatchErrorDone(tk, l, why) == [tk EXCEPT ![l].pc = "Done", ![l].err = why]

\* A catch that sends the failed text once more before it gives up.
CatchErrorRetriesOnce(tk, l, why) ==
    LET sent == tk[l].calls
        last == sent[Len(sent)]
    IN  IF /\ why = "translate"
           /\ Cardinality({n \in DOMAIN sent : sent[n] = last}) = 1
        THEN [tk EXCEPT ![l].calls = @ \o <<last>>, ![l].inflight = {last}]
        ELSE [tk EXCEPT ![l].pc = "Failed", ![l].err = why]

\* A catch inside the chunk loop: the chunk whose call failed is skipped
\* and the loop goes on with the next chunk.
CatchErrorSkipsChunk(tk, l, why) ==
    LET plan == Plan(files[tk[l].doc].text)
        sent == Len(tk[l].calls)
    IN  IF why = "translate" /\ sent < Len(plan)
        THEN [tk EXCEPT ![l].calls = Append(@, plan[sent + 1]),
                        ![l].inflight = {plan[sent + 1]},
                        ![l].i = sent]
        ELSE [tk EXCEPT ![l].pc = "Failed", ![l].err = why]

\* Lines 311-313: the catch of the task logs the error; the task ends here.
CatchError(tk, l, why) == [tk EXCEPT ![l].pc = "Failed", ![l].err = why]

\* A catch that saves the chunks translated so far.
TreeWithPartial(tree, code, d, t) ==
    IF t.i > 0
    THEN [tree EXCEPT ![code, d] =
             [kind |-> "partial", text |-> 0, lang |-> code,
              pieces |-> Join(t.translatedChunks, "\n\n"), adjusted |-> FALSE]]
    ELSE tree

\* Lines 311-313: the catch of the task writes nothing.
TreeAfterError(tree, code, d, t) == tree

\* ------------------------------------------------------------ main() of translateMd.js

config == <<script, configJson, translationFormats, files>>

\* A file loop that starts over after the last file.
NextFileStartsOver(d) ==
    IF d < Len(files)
    THEN fileIdx' = d + 1 /\ mainPc' = "readFile"
    ELSE fileIdx' = 1 /\ mainPc' = "readFile"

\* The end of an iteration of the file loop (line 332): the next iteration
\* runs up to its fs.readFile, or the loop ends (line 335).
NextFile(d) ==
    IF d < Len(files)
    THEN fileIdx' = d + 1 /\ mainPc' = "readFile"
    ELSE fileIdx' = d /\ mainPc' = "finished"

\* Lines 192-229: loadConfig() exits with code 1 on a missing or incomplete
\* configuration; else the file loop starts (lines 220-223: it ends at once
\* when there is no file).
LoadConfig ==
    /\ script = "translateMd"
    /\ mainPc = "loadConfig"
    /\ IF ~configOk
       THEN mainPc' = "exit1" /\ fileIdx' = fileIdx
       ELSE IF Len(files) = 0
            THEN mainPc' = "finished" /\ fileIdx' = fileIdx
            ELSE mainPc' = "readFile" /\ fileIdx' = 1
    /\ UNCHANGED <<config, helper, unreadable, fs, dirs, batchI, tasks, settled, run, fsAtStart>>

\* A read error that is not caught in the loop: it ends the run in the
\* catch of main (line 338).
ReadFileFailsAborts ==
    /\ script = "translateMd"
    /\ mainPc = "readFile"
    /\ mainPc' = "caught"
    /\ unreadable' = unreadable \cup {fileIdx}
    /\ tasks' = NoTasks
    /\ settled' = <<>>
    /\ UNCHANGED <<config, helper, fs, dirs, fileIdx, batchI, run, fsAtStart>>

\* Lines 241-246: fs.readFile fails: continue with the next file.
ReadFileFails ==
    /\ script = "translateMd"
    /\ mainPc = "readFile"
    /\ NextFile(fileIdx)
    /\ unreadable' = unreadable \cup {fileIdx}
    /\ tasks' = NoTasks
    /\ settled' = <<>>
    /\ UNCHANGED <<config, helper, fs, dirs, batchI, run, fsAtStart>>

\* Lines 241-325: the source is read, one task per entry of the language
\* map is constructed, and the first batch is started.
ReadFile ==
    /\ script = "translateMd"
    /\ mainPc = "readFile"
    /\ LET constructed == [l \in LangIds |-> PendingTask(fileIdx)]
       IN  IF Len(translationFormats) > 0
           THEN /\ tasks' = StartBatch(constructed, 0, CONCURRENCY_LIMIT)
                /\ batchI' = 0
                /\ mainPc' = "awaitBatch"
                /\ fileIdx' = fileIdx
           ELSE /\ tasks' = constructed
                /\ batchI' = batchI
                /\ NextFile(fileIdx)
    /\ settled' = <<>>
    /\ UNCHANGED <<config, helper, unreadable, fs, dirs, run, fsAtStart>>

\* Lines 321-332: the batch has settled: the results are delivered, and the
\* loop starts the next batch or, after the last one, the next file.
AllSettled ==
    /\ script = "translateMd"
    /\ mainPc = "awaitBatch"
    /\ LET i == NextBatchI(batchI, CONCURRENCY_LIMIT)
           p == BatchPromise(tasks, batchI, CONCURRENCY_LIMIT)
       IN  /\ BatchDone(tasks, batchI, CONCURRENCY_LIMIT)
           /\ IF p.status = "rejected"
              THEN \* the await throws into the catch of main (line 338)
                   /\ mainPc' = "caught"
                   /\ UNCHANGED <<settled, batchI, tasks, fileIdx>>
              ELSE /\ settled' = settled \o p.value
                   /\ batchI' = i
                   /\ IF i < Len(tasks)
                      THEN /\ tasks' = StartBatch(tasks, i, CONCURRENCY_LIMIT)
                           /\ UNCHANGED <<mainPc, fileIdx>>
                      ELSE /\ tasks' = tasks
                           /\ NextFile(fileIdx)
    /\ UNCHANGED <<config, helper, unreadable, fs, dirs, run, fsAtStart>>

\* ------------------------------------------------------------ the steps of a task

Running(l) ==
    /\ script = "translateMd"
    /\ mainPc = "awaitBatch"
    /\ l \in LangIds

\* Line 259: fs.mkdir(targetDir, {recursive: true}) returns.  It succeeds
\* on a directory that exists; creating one may fail.
MkdirDone(l) ==
    /\ Running(l)
    /\ LET code == translationFormats[l].code
       IN  /\ tasks[l].pc = "mkdir"
           /\ \/ /\ dirs' = dirs \cup {code}
                 /\ tasks' = [tasks EXCEPT ![l].pc = "access"]
                 /\ fs' = fs
              \/ /\ code \notin dirs
                 /\ dirs' = dirs
                 /\ tasks' = CatchError(tasks, l, "mkdir")
                 /\ fs' = TreeAfterError(fs, code, tasks[l].doc, tasks[l])
    /\ UNCHANGED <<config, helper, unreadable, mainPc, fileIdx, batchI, settled, run, fsAtStart>>

\* Lines 262-300: fs.access(outputFilePath) returns, and the task runs up to
\* its next await: none (skipped), fs.copyFile, or the first translateText.
AccessDone(l) ==
    /\ Running(l)
    /\ LET t == tasks[l]
           e == translationFormats[l]
           first == NextCalls(Plan(files[t.doc].text), 0)
           what == Decide(fs[outputFilePath(e.code, t.doc)] # NoFile, e.instr, e.code)
       IN  /\ t.pc = "access"
           /\ tasks' = [tasks EXCEPT ![l] =
                 CASE what = "copy" -> [t EXCEPT !.pc = "copy", !.wrote = @ + 1]
                   [] what = "translate" ->
                        [t EXCEPT !.pc = "translate",
                                  !.calls = @ \o first,
                                  !.inflight = @ \cup {first[n] : n \in DOMAIN first}]
                   [] OTHER -> [t EXCEPT !.pc = what]]
    /\ UNCHANGED <<config, helper, unreadable, fs, dirs, mainPc, fileIdx, batchI, settled, run, fsAtStart>>

\* Lines 277-279 and 311-313: fs.copyFile returns.
CopyDone(l) ==
    /\ Running(l)
    /\ LET code == translationFormats[l].code
           d == tasks[l].doc
       IN  /\ tasks[l].pc = "copy"
           /\ \/ /\ fs' = [fs EXCEPT ![outputFilePath(code, d)] = SourceCopy(d)]
                 /\ tasks' = [tasks EXCEPT ![l].pc = "Done"]
              \/ /\ fs' = TreeAfterError(fs, code, d, tasks[l])
                 /\ tasks' = CatchError(tasks, l, "copy")
    /\ UNCHANGED <<config, helper, unreadable, dirs, mainPc, fileIdx, batchI, settled, run, fsAtStart>>

\* Lines 292-308 and 311-313: the translateText call c returns.  On a
\* result the loop dispatches the next call or, after the last one,
\* fs.writeFile; on an error the catch ends the task.
TranslateReturn(l, c, resp) ==
    /\ Running(l)
    /\ LET t == tasks[l]
           code == translationFormats[l].code
           plan == Plan(files[t.doc].text)
           next == NextCalls(plan, t.i + 1)
       IN  /\ t.pc = "translate"
           /\ c \in t.inflight
           /\ IF translateTextThrows(resp)
              THEN /\ tasks' = CatchError([tasks EXCEPT ![l].inflight = @ \ {c}],
                                          l, "translate")
                   /\ fs' = TreeAfterError(fs, code, t.doc, t)
              ELSE /\ tasks' = [tasks EXCEPT ![l] =
                         IF t.i + 1 < Len(plan)
                         THEN [t EXCEPT !.i = @ + 1,
                                        !.translatedChunks = Append(@, translatedChunk(c)),
                                        !.calls = @ \o next,
                                        !.inflight = (@ \ {c}) \cup
                                            {next[n] : n \in DOMAIN next}]
                         ELSE [t EXCEPT !.i = @ + 1,
                                        !.translatedChunks = Append(@, translatedChunk(c)),
                                        !.inflight = @ \ {c},
                                        !.pc = "write",
                                        !.wrote = @ + 1]]
                   /\ fs' = fs
    /\ UNCHANGED <<config, helper, unreadable, dirs, mainPc, fileIdx, batchI, settled, run, fsAtStart>>

\* Lines 308-313: fs.writeFile returns.
WriteDone(l) ==
    /\ Running(l)
    /\ LET code == translationFormats[l].code
           d == tasks[l].doc
       IN  /\ tasks[l].pc = "write"
           /\ \/ /\ fs' = [fs EXCEPT ![outputFilePath(code, d)] = Translation(d, code, tasks[l])]
                 /\ tasks' = [tasks EXCEPT ![l].pc = "Done"]
              \/ /\ fs' = TreeAfterError(fs, code, d, tasks[l])
                 /\ tasks' = CatchError(tasks, l, "write")
    /\ UNCHANGED <<config, helper, unreadable, dirs, mainPc, fileIdx, batchI, settled, run, fsAtStart>>

TaskStep ==
    \E l \in 1..NumBatchLangs :
        \/ MkdirDone(l)
        \/ AccessDone(l)
        \/ CopyDone(l)
        \/ \E c \in 0..MaxCalls, resp \in Responses : TranslateReturn(l, c, resp)
        \/ WriteDone(l)

Next ==
    \/ LoadConfig
    \/ ReadFileFails
    \/ ReadFile
    \/ AllSettled
    \/ TaskStep

Spec == Init /\ [][Next]_vars

\* Every external operation returns, with success or with failure, and the
\* event loop runs the continuation of an operation that has returned: a
\* step that can be taken is taken.
FairSpec == Spec /\ WF_vars(Next)

\* ------------------------------------------------------------ a second launch

\* The script is launched again, against the output tree as it is.
Restart ==
    /\ script = "translateMd"
    /\ mainPc = "finished"
    /\ run < MaxRuns
    /\ run' = run + 1
    /\ fsAtStart' = fs
    /\ mainPc' = "loadConfig"
    /\ fileIdx' = 0
    /\ batchI' = 0
    /\ tasks' = NoTasks
    /\ settled' = <<>>
    /\ unreadable' = {}
    /\ UNCHANGED <<config, helper, fs, dirs>>

RerunInit ==
    /\ script = "translateMd"
    /\ configJson = "complete"
    /\ translationFormats \in ShortMaps
    /\ files \in [1..NumRerunDocs -> DocKinds]
    /\ fs = EmptyTree
    /\ Fresh
    /\ helper = NoCall

RerunNext == Next \/ Restart

RerunSpec == RerunInit /\ [][RerunNext]_vars

\* ------------------------------------------------------------ main() of the formatting script

\* part_001, lines 157-171: the task of one Markdown file f, started at
\* line 188: it runs up to its fs.readFile.
FormatStartTask(t) == [t EXCEPT !.pc = "read", !.starts = @ + 1]

FormatStartBatch(tk, i, limit) ==
    [f \in DOMAIN tk |->
        IF f \in BatchSlice(Len(tk), i, limit) THEN FormatStartTask(tk[f]) ELSE tk[f]]

\* part_001, lines 98-188: loadConfig() exits with code 1 on a missing or
\* incomplete configuration; else one task per Markdown file is constructed
\* and the first batch is started (lines 142-145: no file, no task).
FormatLaunch ==
    /\ script = "formatMd"
    /\ mainPc = "loadConfig"
    /\ LET constructed == [f \in DOMAIN files |-> PendingTask(f)]
       IN  IF ~configOk
           THEN mainPc' = "exit1" /\ UNCHANGED tasks
           ELSE IF Len(files) = 0
                THEN mainPc' = "finished" /\ UNCHANGED tasks
                ELSE /\ mainPc' = "awaitBatch"
                     /\ tasks' = FormatStartBatch(constructed, 0, FORMAT_CONCURRENCY_LIMIT)
    /\ UNCHANGED <<config, helper, unreadable, fs, dirs, fileIdx, batchI, settled, run, fsAtStart>>

\* part_001, lines 183-196: the batch has settled; the next one is started,
\* or main() ends.
FormatAllSettled ==
    /\ script = "formatMd"
    /\ mainPc = "awaitBatch"
    /\ LET i == NextBatchI(batchI, FORMAT_CONCURRENCY_LIMIT)
           p == BatchPromise(tasks, batchI, FORMAT_CONCURRENCY_LIMIT)
       IN  /\ BatchDone(tasks, batchI, FORMAT_CONCURRENCY_LIMIT)
           /\ IF p.status = "rejected"
              THEN \* the await throws into the catch of main (line 198)
                   /\ mainPc' = "caught"
                   /\ UNCHANGED <<settled, batchI, tasks>>
              ELSE /\ settled' = settled \o p.value
                   /\ batchI' = i
                   /\ IF i < Len(tasks)
                      THEN /\ tasks' = FormatStartBatch(tasks, i, FORMAT_CONCURRENCY_LIMIT)
                           /\ mainPc' = mainPc
                      ELSE /\ tasks' = tasks
                           /\ mainPc' = "finished"
    /\ UNCHANGED <<config, helper, unreadable, fs, dirs, fileIdx, run, fsAtStart>>

FormatRunning(f) ==
    /\ script = "formatMd"
    /\ mainPc = "awaitBatch"
    /\ f \in DOMAIN tasks

\* part_001, lines 160-163 and 167-170: fs.readFile returns; on success
\* callAIForFormatting is called.
FormatReadDone(f) ==
    /\ FormatRunning(f)
    /\ tasks[f].pc = "read"
    /\ \/ tasks' = [tasks EXCEPT ![f].pc = "call", ![f].calls = @ \o <<0>>,
                                 ![f].inflight = {0}]
       \/ tasks' = CatchError(tasks, f, "read")
    /\ UNCHANGED <<config, helper, unreadable, fs, dirs, mainPc, fileIdx, batchI, settled, run, fsAtStart>>

\* part_001, lines 57-61, 75-82 and 163-170: callAIForFormatting returns or
\* throws (an error, or a response with no content).
FormatCallDone(f, resp) ==
    /\ FormatRunning(f)
    /\ tasks[f].pc = "call"
    /\ IF translateTextThrows(resp)
       THEN tasks' = CatchError([tasks EXCEPT ![f].inflight = {}], f, "call")
       ELSE tasks' = [tasks EXCEPT ![f].pc = "write", ![f].inflight = {},
                                   ![f].i = 1, ![f].wrote = @ + 1]
    /\ UNCHANGED <<config, helper, unreadable, fs, dirs, mainPc, fileIdx, batchI, settled, run, fsAtStart>>

\* part_001, lines 165-170: fs.writeFile returns.
FormatWriteDone(f) ==
    /\ FormatRunning(f)
    /\ tasks[f].pc = "write"
    /\ \/ /\ fs' = [fs EXCEPT ![FormattedDir, f] =
                       [kind |-> "formatted", text |-> files[f].text, lang |-> "",
                        pieces |-> <<"formatted">>, adjusted |-> FALSE]]
          /\ tasks' = [tasks EXCEPT ![f].pc = "Done"]
       \/ /\ fs' = fs
          /\ tasks' = CatchError(tasks, f, "write")
    /\ UNCHANGED <<config, helper, unreadable, dirs, mainPc, fileIdx, batchI, settled, run, fsAtStart>>

FormatTaskStep ==
    \E f \in 1..NumFormatFiles :
        \/ FormatReadDone(f)
        \/ \E resp \in Responses : FormatCallDone(f, resp)
        \/ FormatWriteDone(f)

\* ------------------------------------------------------------ the scheduler under load

\* translateMd.js with the long language map, relaunched on the tree an
\* interrupted launch has left; or the formatting script with more files
\* than FORMAT_CONCURRENCY_LIMIT.
SchedInit ==
    /\ configJson \in ConfigFiles
    /\ \/ /\ script = "translateMd"
          /\ translationFormats = LongMap
          /\ files = << [text |-> 1, fileType |-> "markdown"] >>
          /\ fs = LeftTree({ BatchCodes[n] : n \in 1..(CONCURRENCY_LIMIT - 1) }, {1})
       \/ /\ script = "formatMd"
          /\ translationFormats = <<>>
          /\ files = [f \in 1..NumFormatFiles |-> [text |-> 1, fileType |-> "markdown"]]
          /\ fs = EmptyTree
    /\ Fresh
    /\ helper = NoCall

SchedNext ==
    \/ Next
    \/ FormatLaunch
    \/ FormatAllSettled
    \/ FormatTaskStep

SchedSpec == SchedInit /\ [][SchedNext]_vars

\* The output tree an interrupted launch has left when only the last
\* languages of the first document were missing.
LeftAtFirst ==
    [p \in AllCodes \X (1..MaxFiles) |->
        IF \/ p[1] \in { BatchCodes[n] : n \in 1..(CONCURRENCY_LIMIT - 1) }
           \/ p[1] \in { BatchCodes[n] : n \in 1..NumBatchLangs } /\ p[2] > 1
        THEN OldFile ELSE NoFile]

\* translateMd.js with the long language map on NumDocs documents, against
\* the output tree an interrupted launch has left.
LongInit ==
    /\ script = "translateMd"
    /\ configJson = "complete"
    /\ translationFormats = LongMap
    /\ files = [d \in 1..NumDocs |-> [text |-> 1, fileType |-> "markdown"]]
    /\ fs = LeftAtFirst
    /\ Fresh
    /\ helper = NoCall

LongSpec == LongInit /\ [][Next]_vars

\* ------------------------------------------------------------ main() of the sequential variant

\* part_002, lines 141-163: what an iteration of the language loop does
\* once fs.mkdir has returned: the source language is copied, whatever the
\* instruction and whatever is at the destination; then the instruction is
\* looked at; fs.access is awaited for the other languages only.
SeqDecide(instr, code) ==
    IF ToLowerCase(code) = "en" THEN "copy"
    ELSE IF ToLowerCase(instr) = "don't translate" THEN "SkippedNoTranslate"
    ELSE "access"

\* part_002, lines 167-168: what is written: the answer to the one call
\* made with the whole text.
SeqTranslation(d, code, t) ==
    [kind |-> "translation", text |-> files[d].text, lang |-> code,
     pieces |-> t.translatedChunks, adjusted |-> FALSE]

\* part_002, lines 136-138: the iteration after iteration l of the language
\* loop runs up to its fs.mkdir.
SeqStartNext(tk, l) == IF l < Len(tk) THEN [tk EXCEPT ![l + 1] = StartTask(@)] ELSE tk

\* part_002, lines 121 and 136: the loops go on: to the next language, or
\* after the last one to the next file or the end of the file loop.
SeqContinue(l) ==
    IF l < Len(tasks)
    THEN batchI' = l + 1 /\ mainPc' = mainPc /\ fileIdx' = fileIdx
    ELSE batchI' = batchI /\ NextFile(fileIdx)

\* The iteration of the language loop that main() is suspended in.
SeqRunning(l) ==
    /\ script = "translateSeq"
    /\ mainPc = "language"
    /\ l = batchI

\* part_002, lines 107-119: loadConfig() exits with code 1 when config.json
\* cannot be read or parsed (no field is looked at); with no Markdown file
\* main() returns.
SeqLaunch ==
    /\ script = "translateSeq"
    /\ mainPc = "loadConfig"
    /\ IF ~pdfConfigOk
       THEN mainPc' = "exit1" /\ fileIdx' = fileIdx
       ELSE IF Len(files) = 0
            THEN mainPc' = "finished" /\ fileIdx' = fileIdx
            ELSE mainPc' = "readFile" /\ fileIdx' = 1
    /\ UNCHANGED <<config, helper, unreadable, fs, dirs, batchI, tasks, settled, run, fsAtStart>>

\* part_002, lines 131-134: fs.readFile fails: continue with the next file.
SeqReadFileFails ==
    /\ script = "translateSeq"
    /\ mainPc = "readFile"
    /\ NextFile(fileIdx)
    /\ unreadable' = unreadable \cup {fileIdx}
    /\ tasks' = NoTasks
    /\ UNCHANGED <<config, helper, fs, dirs, batchI, settled, run, fsAtStart>>

\* part_002, lines 129-138: the source is read and the language loop runs
\* up to the fs.mkdir of its first iteration.  tasks[l] records iteration l
\* of the language loop for the current file.
SeqReadFile ==
    /\ script = "translateSeq"
    /\ mainPc = "readFile"
    /\ Len(translationFormats) > 0
    /\ tasks' = SeqStartNext([l \in LangIds |-> PendingTask(fileIdx)], 0)
    /\ batchI' = 1
    /\ mainPc' = "language"
    /\ UNCHANGED <<config, helper, unreadable, fs, dirs, fileIdx, settled, run, fsAtStart>>

\* part_002, lines 138-154: fs.mkdir(langOutputDir) returns.  No try of the
\* loop is around it: its error is thrown into the catch of main (line 178).
SeqMkdirDone(l) ==
    /\ SeqRunning(l)
    /\ tasks[l].pc = "mkdir"
    /\ LET e == translationFormats[l]
           what == SeqDecide(e.instr, e.code)
       IN  \/ /\ dirs' = dirs \cup {e.code}
              /\ IF what = "SkippedNoTranslate"
                 THEN /\ tasks' = SeqStartNext([tasks EXCEPT ![l].pc = what], l)
                      /\ SeqContinue(l)
                 ELSE /\ tasks' = [tasks EXCEPT ![l].pc = what,
                                                ![l].wrote = IF what = "copy" THEN @ + 1 ELSE @]
                      /\ UNCHANGED <<mainPc, fileIdx, batchI>>
           \/ /\ e.code \notin dirs
              /\ dirs' = dirs
              /\ tasks' = [tasks EXCEPT ![l].pc = "Failed", ![l].err = "mkdir"]
              /\ mainPc' = "caught"
              /\ UNCHANGED <<fileIdx, batchI>>
    /\ UNCHANGED <<config, helper, unreadable, fs, settled, run, fsAtStart>>

\* part_002, lines 142-148: fs.copyFile returns; it replaces what is at the
\* destination; its error is logged.
SeqCopyDone(l) ==
    /\ SeqRunning(l)
    /\ tasks[l].pc = "copy"
    /\ LET code == translationFormats[l].code
           d == tasks[l].doc
       IN  \/ /\ fs' = [fs EXCEPT ![outputFilePath(code, d)] = SourceCopy(d)]
              /\ tasks' = SeqStartNext([tasks EXCEPT ![l].pc = "Done"], l)
           \/ /\ fs' = fs
              /\ tasks' = SeqStartNext([tasks EXCEPT ![l].pc = "Failed", ![l].err = "copy"], l)
    /\ SeqContinue(l)
    /\ UNCHANGED <<config, helper, unreadable, dirs, settled, run, fsAtStart>>

\* part_002, lines 157-167: fs.access returns: the language is skipped when
\* the file exists, else translateText is called with the whole text.
SeqAccessDone(l) ==
    /\ SeqRunning(l)
    /\ tasks[l].pc = "access"
    /\ LET code == translationFormats[l].code
       IN  IF Exists(fs, code, tasks[l].doc)
           THEN /\ tasks' = SeqStartNext([tasks EXCEPT ![l].pc = "SkippedExists"], l)
                /\ SeqContinue(l)
           ELSE /\ tasks' = [tasks EXCEPT ![l].pc = "translate",
                                          ![l].calls = <<0>>,
                                          ![l].inflight = {0}]
                /\ UNCHANGED <<mainPc, fileIdx, batchI>>
    /\ UNCHANGED <<config, helper, unreadable, fs, dirs, settled, run, fsAtStart>>

\* part_002, lines 167-172: translateText returns or throws; the catch of
\* the iteration logs the error.
SeqTranslateReturn(l, resp) ==
    /\ SeqRunning(l)
    /\ tasks[l].pc = "translate"
    /\ IF translateTextThrows(resp)
       THEN /\ tasks' = SeqStartNext([tasks EXCEPT ![l].pc = "Failed",
                                                   ![l].err = "translate",
                                                   ![l].inflight = {}], l)
            /\ SeqContinue(l)
       ELSE /\ tasks' = [tasks EXCEPT ![l].pc = "write",
                                      ![l].i = 1,
                                      ![l].inflight = {},
                                      ![l].translatedChunks = <<translatedChunk(0)>>,
                                      ![l].wrote = @ + 1]
            /\ UNCHANGED <<mainPc, fileIdx, batchI>>
    /\ UNCHANGED <<config, helper, unreadable, fs, dirs, settled, run, fsAtStart>>

\* part_002, lines 168-172: fs.writeFile returns.
SeqWriteDone(l) ==
    /\ SeqRunning(l)
    /\ tasks[l].pc = "write"
    /\ LET code == translationFormats[l].code
           d == tasks[l].doc
       IN  \/ /\ fs' = [fs EXCEPT ![outputFilePath(code, d)] = SeqTranslation(d, code, tasks[l])]
              /\ tasks' = SeqStartNext([tasks EXCEPT ![l].pc = "Done"], l)
           \/ /\ fs' = fs
              /\ tasks' = SeqStartNext([tasks EXCEPT ![l].pc = "Failed", ![l].err = "write"], l)
    /\ SeqContinue(l)
    /\ UNCHANGED <<config, helper, unreadable, dirs, settled, run, fsAtStart>>

SeqStep ==
    \E l \in 1..NumBatchLangs :
        \/ SeqMkdirDone(l)
        \/ SeqCopyDone(l)
        \/ SeqAccessDone(l)
        \/ \E resp \in Responses : SeqTranslateReturn(l, resp)
        \/ SeqWriteDone(l)

\* The output trees an earlier launch may have left.
LeftTrees ==
    { EmptyTree, LeftTree({"en"}, 1..NumDocs), LeftTree({"fr", "de"}, {1}) }

\* Either variant of the translator is launched on Markdown documents that
\* are not longer than the threshold, with one of the language maps and
\* one of the output trees.
VariantsInit ==
    /\ script \in {"translateMd", "translateSeq"}
    /\ configJson \in ConfigFiles
    /\ translationFormats \in ShortMaps
    /\ files = [d \in 1..NumDocs |-> [text |-> 1, fileType |-> "markdown"]]
    /\ fs \in LeftTrees
    /\ Fresh
    /\ helper = NoCall

VariantsNext ==
    \/ Next
    \/ SeqLaunch
    \/ SeqReadFileFails
    \/ SeqReadFile
    \/ SeqStep

VariantsSpec == VariantsInit /\ [][VariantsNext]_vars

\* ------------------------------------------------------------ splitTextIntoChunks, step by step

\* The characters of the texts: a letter and the characters the boundaries
\* are made of.
Alphabet == {"a", ".", " ", "\n"}

\* The texts of at most MaxTextLen characters.
Texts == UNION { [1..n -> Alphabet] : n \in 0..MaxTextLen }

\* The state of main() while a helper function is evaluated on its own.
Detached ==
    /\ script = "none"
    /\ configJson = "complete"
    /\ translationFormats = <<>>
    /\ files = <<>>
    /\ fs = EmptyTree
    /\ Fresh

mainVars == <<config, unreadable, fs, dirs, mainPc, fileIdx, batchI, tasks, settled,
              run, fsAtStart>>

\* Lines 123-125: splitTextIntoChunks(text, maxSize) is called.
SplitInit ==
    /\ Detached
    /\ \E text \in Texts, maxSize \in 1..MaxChunkSize :
          helper = [fn |-> "splitTextIntoChunks", text |-> text, maxSize |-> maxSize,
                    startIndex |-> 0, chunks |-> <<>>, pc |-> "while"]

Splitting ==
    /\ helper.fn = "splitTextIntoChunks"
    /\ helper.pc = "while"

\* Lines 126-131: the rest of the text fits: it is the last chunk, and the
\* loop is left by break.
SplitLastChunk ==
    /\ Splitting
    /\ helper.startIndex < Len(helper.text)
    /\ helper.startIndex + helper.maxSize >= Len(helper.text)
    /\ helper' = [helper EXCEPT
                     !.chunks = Append(@, Substring(helper.text, helper.startIndex,
                                                    Len(helper.text))),
                     !.pc = "returned"]
    /\ UNCHANGED mainVars

\* A loop that forgets to move the cursor.
CursorStays(startIndex, splitPos) == startIndex

\* Line 155: startIndex = splitPos.
CursorAfter(startIndex, splitPos) == splitPos

\* Lines 126-155: the rest is longer than maxSize: the chunk up to the cut
\* is pushed and the cursor moves to the cut.
SplitCut ==
    /\ Splitting
    /\ Len(helper.chunks) < MaxChunks
    /\ helper.startIndex < Len(helper.text)
    /\ helper.startIndex + helper.maxSize < Len(helper.text)
    /\ LET splitPos == SplitPos(helper.text, helper.startIndex,
                                helper.startIndex + helper.maxSize)
       IN  helper' = [helper EXCEPT
                         !.chunks = Append(@, Substring(helper.text, helper.startIndex,
                                                        splitPos)),
                         !.startIndex = CursorAfter(@, splitPos)]
    /\ UNCHANGED mainVars

\* Lines 125 and 157: the cursor is at the end of the text: return chunks.
SplitReturn ==
    /\ Splitting
    /\ helper.startIndex >= Len(helper.text)
    /\ helper' = [helper EXCEPT !.pc = "returned"]
    /\ UNCHANGED mainVars

SplitNext ==
    \/ SplitLastChunk
    \/ SplitCut
    \/ SplitReturn

SplitSpec == SplitInit /\ [][SplitNext]_vars

\* Lines 123-125: the function is called with any maxSize, positive or
\* not.
SplitAnyInit ==
    /\ Detached
    /\ \E text \in Texts, maxSize \in (0 - MaxDeficit)..MaxChunkSize :
          helper = [fn |-> "splitTextIntoChunks", text |-> text, maxSize |-> maxSize,
                    startIndex |-> 0, chunks |-> <<>>, pc |-> "while"]

SplitAnySpec == SplitAnyInit /\ [][SplitNext]_vars

\* The loop is run to its end: a step that can be taken is taken.
SplitFairSpec == SplitSpec /\ WF_vars(SplitNext)

\* ------------------------------------------------------------ translateText

\* The contents of a response: at most MaxTokens of the fences, a blank, a
\* line break and a letter, one after the other.
ResponseTokens == { startFenceMd, startFenceHtml, endFence, <<" ">>, <<"\n">>, <<"x">> }

Contents == { Concat(ts) : ts \in UNION { [1..n -> ResponseTokens] : n \in 0..MaxTokens } }

\* Lines 64-82: translateText awaits axios.post, and the response arrives
\* with some content.
TranslateTextInit ==
    /\ Detached
    /\ \E content \in Contents :
          helper = [fn |-> "translateText", content |-> content, value |-> <<>>,
                    pc |-> "await"]

\* Lines 85-108: the function returns translatedContent.
TranslateTextReturns ==
    /\ helper.fn = "translateText"
    /\ helper.pc = "await"
    /\ ~translatedContent(helper.content).threw
    /\ helper' = [helper EXCEPT !.value = translatedContent(helper.content).value,
                                !.pc = "returned"]
    /\ UNCHANGED mainVars

\* Lines 88-90 and 111-118: the function throws.
TranslateTextThrows ==
    /\ helper.fn = "translateText"
    /\ helper.pc = "await"
    /\ translatedContent(helper.content).threw
    /\ helper' = [helper EXCEPT !.pc = "threw"]
    /\ UNCHANGED mainVars

TranslateTextNext == TranslateTextReturns \/ TranslateTextThrows

TranslateTextSpec == TranslateTextInit /\ [][TranslateTextNext]_vars

\* ------------------------------------------------------------ adjustHtmlImagePaths

\* String.prototype.toLowerCase on one character of the markup.
LowerChar(c) ==
    CASE c = "I" -> "i" [] c = "M" -> "m" [] c = "G" -> "g"
      [] c = "S" -> "s" [] c = "R" -> "r" [] c = "C" -> "c"
      [] c = "H" -> "h" [] c = "T" -> "t" [] c = "P" -> "p"
      [] OTHER -> c

\* The literal parts of the regular expression of line 164 and the
\* prefixes of lines 165 and 169.
ImgOpen == <<"<", "i", "m", "g">>

SrcOpen == <<"s", "r", "c", "=", "\"">>

HttpPrefix == <<"h", "t", "t", "p", ":", "/", "/">>

HttpsPrefix == <<"h", "t", "t", "p", "s", ":", "/", "/">>

DataPrefix == <<"d", "a", "t", "a", ":">>

EnPrefix == <<".", ".", "/", "e", "n", "/">>

EnDir == <<".", ".", "/", "e", "n">>

\* pat occurs in text at position p (1-based), letter case ignored (the i
\* flag of the regular expression).
MatchesAt(text, p, pat) ==
    /\ p + Len(pat) - 1 <= Len(text)
    /\ \A j \in 1..Len(pat) : LowerChar(text[p + j - 1]) = pat[j]

\* The match of /<img([^>]+)src="([^"]+)"/i that starts at position s:
\* key is where src=" starts and quote where the closing quote is; key is
\* 0 when there is no match.  The attributes ([^>]+) are greedy: of the
\* places where src=" can start, the last one is taken; the value ([^"]+)
\* runs to the next quote and is not empty.
MatchFrom(text, s) ==
    IF ~MatchesAt(text, s, ImgOpen) THEN [key |-> 0, quote |-> 0]
    ELSE LET keys == { q \in (s + Len(ImgOpen) + 1)..Len(text) :
                          /\ \A p \in (s + Len(ImgOpen))..(q - 1) : text[p] # ">"
                          /\ MatchesAt(text, q, SrcOpen)
                          /\ q + Len(SrcOpen) <= Len(text)
                          /\ text[q + Len(SrcOpen)] # "\""
                          /\ \E r \in (q + Len(SrcOpen) + 1)..Len(text) : text[r] = "\"" }
         IN  IF keys = {} THEN [key |-> 0, quote |-> 0]
             ELSE LET q == Max(keys)
                  IN  [key |-> q,
                       quote |-> CHOOSE r \in (q + Len(SrcOpen) + 1)..Len(text) :
                                    /\ text[r] = "\""
                                    /\ \A p \in (q + Len(SrcOpen))..(r - 1) : text[p] # "\""]

\* The value of src in a match.
SrcOf(text, mt) == SubSeq(text, mt.key + Len(SrcOpen), mt.quote - 1)

\* A test that takes a path under ../en/ for a path to rewrite.
LeftAloneUnlessRewritten(src) ==
    \/ StartsWith(src, HttpPrefix)
    \/ StartsWith(src, HttpsPrefix)
    \/ StartsWith(src, DataPrefix)

\* Line 165: the values that are not modified.
LeftAlone(src) ==
    \/ StartsWith(src, HttpPrefix)
    \/ StartsWith(src, HttpsPrefix)
    \/ StartsWith(src, DataPrefix)
    \/ StartsWith(src, EnPrefix)

\* Lines 165-170: what a match that starts at s is replaced with.
Replacement(text, s, mt) ==
    LET src == SrcOf(text, mt)
        attributes == SubSeq(text, s + Len(ImgOpen), mt.key - 1)
        newSrc == IF StartsWith(src, <<"/">>) THEN EnDir \o src ELSE EnPrefix \o src
    IN  IF LeftAlone(src) THEN SubSeq(text, s, mt.quote)
        ELSE ImgOpen \o attributes \o SrcOpen \o newSrc \o <<"\"">>

\* Line 164: String.prototype.replace with the g flag: the matches are
\* taken from left to right, each search starting where the last match
\* ended.
RECURSIVE ReplaceFrom(_, _)
ReplaceFrom(text, s) ==
    IF s > Len(text) THEN <<>>
    ELSE LET mt == MatchFrom(text, s)
         IN  IF mt.key = 0 THEN <<text[s]>> \o ReplaceFrom(text, s + 1)
             ELSE Replacement(text, s, mt) \o ReplaceFrom(text, mt.quote + 1)

adjustHtmlImagePaths(htmlContent) == ReplaceFrom(htmlContent, 1)

\* The values of src of the matches of a text, from left to right.
RECURSIVE SrcsFrom(_, _)
SrcsFrom(text, s) ==
    IF s > Len(text) THEN <<>>
    ELSE LET mt == MatchFrom(text, s)
         IN  IF mt.key = 0 THEN SrcsFrom(text, s + 1)
             ELSE <<SrcOf(text, mt)>> \o SrcsFrom(text, mt.quote + 1)

\* The img tags of the markup: an opening in either letter case; before
\* the key nothing, a blank, or a src attribute and the head of a second
\* attribute x-src; the key in either letter case, a path or URL, and an
\* end with or without the closing quote.
TagOpens == { ImgOpen, <<"<", "I", "M", "G">> }

TagAttributes == { <<>>, <<" ">>, <<" ">> \o SrcOpen \o <<"b", "\"", " ", "x", "-">> }

TagKeys == { SrcOpen, <<"S", "R", "C", "=", "\"">> }

TagSrcs ==
    { <<>>, <<"a">>, <<"/", "a">>, EnPrefix \o <<"a">>, EnDir,
      HttpPrefix \o <<"a">>, HttpsPrefix \o <<"a">>, DataPrefix \o <<"a">>,
      <<"H", "T", "T", "P", ":", "/", "/", "a">> }

TagEnds == { <<"\"", ">">>, <<">">> }

Tags ==
    { o \o a \o k \o s \o e :
        o \in TagOpens, a \in TagAttributes, k \in TagKeys, s \in TagSrcs, e \in TagEnds }

\* The well-formed img tags with a blank before the key.
PlainTags ==
    { ImgOpen \o <<" ">> \o SrcOpen \o s \o <<"\"", ">">> :
        s \in { <<"a">>, <<"/", "a">>, EnPrefix \o <<"a">>,
                <<"H", "T", "T", "P", ":", "/", "/", "a">> } }

\* The markup texts of at most MaxTags tags: any two tags, followed by
\* well-formed ones.
Markup ==
    { Concat(ts) \o Concat(us) :
        ts \in UNION { [1..n -> Tags] : n \in 0..Min(MaxTags, 2) },
        us \in UNION { [1..n -> PlainTags] : n \in 0..Max({MaxTags - 2, 0}) } }

\* Lines 303-306 call adjustHtmlImagePaths(htmlContent); here it is called
\* on a markup text, and then once more on what it has returned.
AdjustInit ==
    /\ Detached
    /\ \E htmlContent \in Markup :
          helper = [fn |-> "adjustHtmlImagePaths", htmlContent |-> htmlContent,
                    returned |-> <<>>, pc |-> "called"]

\* Lines 164-171: the function returns the text with the matches replaced.
AdjustReturn ==
    /\ helper.fn = "adjustHtmlImagePaths"
    /\ helper.pc = "called"
    /\ helper' = [helper EXCEPT
                     !.returned = <<adjustHtmlImagePaths(helper.htmlContent)>>,
                     !.pc = "returned"]
    /\ UNCHANGED mainVars

\* The function is called on the text it has returned, and returns.
AdjustAgain ==
    /\ helper.fn = "adjustHtmlImagePaths"
    /\ helper.pc = "returned"
    /\ helper' = [helper EXCEPT
                     !.returned = Append(@, adjustHtmlImagePaths(@[1])),
                     !.pc = "returned twice"]
    /\ UNCHANGED mainVars

AdjustNext == AdjustReturn \/ AdjustAgain

AdjustSpec == AdjustInit /\ [][AdjustNext]_vars

\* ------------------------------------------------------------ large documents

\* The large documents of the corpus.
LargeKinds ==
    { [text |-> 2, fileType |-> "html"],
      [text |-> 3, fileType |-> "markdown"],
      [text |-> 4, fileType |-> "markdown"] }

\* translateMd.js is launched on one large document, with an empty output
\* tree.
LargeInit ==
    /\ script = "translateMd"
    /\ configJson \in ConfigFiles
    /\ translationFormats \in ShortMaps
    /\ files \in [1..1 -> LargeKinds]
    /\ fs = EmptyTree
    /\ Fresh
    /\ helper = NoCall

LargeSpec == LargeInit /\ [][Next]_vars

\* The documents of the corpus around the threshold.
ThresholdKinds ==
    { [text |-> 5, fileType |-> "markdown"],
      [text |-> 6, fileType |-> "markdown"],
      [text |-> 7, fileType |-> "markdown"] }

\* translateMd.js is launched on one document whose length is the
\* threshold or one more, with an empty output tree.
ThresholdInit ==
    /\ script = "translateMd"
    /\ configJson \in ConfigFiles
    /\ translationFormats \in ShortMaps
    /\ files \in [1..1 -> ThresholdKinds]
    /\ fs = EmptyTree
    /\ Fresh
    /\ helper = NoCall

ThresholdSpec == ThresholdInit /\ [][Next]_vars

\* ------------------------------------------------------------ main() of translatePdf.js

\* The kinds of PDF file the input directory may list.
PdfKinds == { [text |-> 1, fileType |-> "pdf"], [text |-> 2, fileType |-> "pdf"] }

\* Lines 162-164: what is written for a PDF: the answer to the one call
\* made with the whole text.
PdfTranslation(d, code) ==
    [kind |-> "translation", text |-> files[d].text, lang |-> code,
     pieces |-> <<translatedChunk(0)>>, adjusted |-> FALSE]

\* The end of an iteration of the file loop of translatePdf.js (line 139).
NextPdf(d) ==
    IF d < Len(files)
    THEN fileIdx' = d + 1 /\ mainPc' = "mkdirPdf"
    ELSE fileIdx' = d /\ mainPc' = "finished"

\* Lines 153-162: the language loop from entry l on, up to its next await:
\* an entry with the sentinel instruction is passed over (line 156), the
\* first other entry dispatches translateText with the whole text.
RECURSIVE PdfLanguageLoop(_, _)
PdfLanguageLoop(tk, l) ==
    IF l > Len(tk) THEN tk
    ELSE IF ToLowerCase(translationFormats[l].instr) = "don't translate"
         THEN PdfLanguageLoop(
                  [tk EXCEPT ![l].pc = "SkippedNoTranslate", ![l].starts = @ + 1],
                  l + 1)
         ELSE [tk EXCEPT ![l].pc = "translate", ![l].starts = @ + 1,
                         ![l].calls = <<0>>, ![l].inflight = {0}]

\* main() is suspended in the iteration of a language, or goes to the next
\* file when the language loop is over.
PdfContinue(tk) ==
    /\ tasks' = tk
    /\ IF \A l \in DOMAIN tk : IsSettled(tk[l])
       THEN NextPdf(fileIdx)
       ELSE mainPc' = "awaitLanguage" /\ fileIdx' = fileIdx

\* Lines 126-139: loadConfig() exits with code 1 when config.json cannot
\* be read or parsed; else the language map is loaded and the directory
\* is listed, and the file loop starts unless there is no PDF.
PdfLaunch ==
    /\ script = "translatePdf"
    /\ mainPc = "loadConfig"
    /\ IF ~pdfConfigOk
       THEN mainPc' = "exit1" /\ fileIdx' = fileIdx
       ELSE IF Len(files) = 0
            THEN mainPc' = "finished" /\ fileIdx' = fileIdx
            ELSE mainPc' = "mkdirPdf" /\ fileIdx' = 1
    /\ UNCHANGED <<config, helper, unreadable, fs, dirs, batchI, tasks, settled, run, fsAtStart>>

\* Line 143: fs.mkdir(pdfOutputDir) returns; its error is thrown into the
\* catch of main (line 174).
PdfMkdirDone ==
    /\ script = "translatePdf"
    /\ mainPc = "mkdirPdf"
    /\ mainPc' \in {"readPdf", "caught"}
    /\ UNCHANGED <<config, helper, unreadable, fs, dirs, fileIdx, batchI, tasks, settled, run, fsAtStart>>

\* Lines 147-152: readPdfText fails: continue with the next file.
PdfReadFails ==
    /\ script = "translatePdf"
    /\ mainPc = "readPdf"
    /\ NextPdf(fileIdx)
    /\ unreadable' = unreadable \cup {fileIdx}
    /\ tasks' = NoTasks
    /\ UNCHANGED <<config, helper, fs, dirs, batchI, settled, run, fsAtStart>>

\* Lines 147-162: the text is read and the language loop starts.
PdfRead ==
    /\ script = "translatePdf"
    /\ mainPc = "readPdf"
    /\ PdfContinue(PdfLanguageLoop([l \in LangIds |-> PendingTask(fileIdx)], 1))
    /\ UNCHANGED <<config, helper, unreadable, fs, dirs, batchI, settled, run, fsAtStart>>

\* Lines 162-168: translateText returns: fs.writeFile is called, or the
\* catch of the iteration logs the error and the loop goes on.
PdfTranslateReturn(l, resp) ==
    /\ script = "translatePdf"
    /\ mainPc = "awaitLanguage"
    /\ l \in LangIds
    /\ tasks[l].pc = "translate"
    /\ IF translateTextThrows(resp)
       THEN PdfContinue(PdfLanguageLoop(
                CatchError([tasks EXCEPT ![l].inflight = {}], l, "translate"), l + 1))
       ELSE /\ tasks' = [tasks EXCEPT ![l].pc = "write", ![l].i = 1,
                                      ![l].inflight = {}, ![l].wrote = @ + 1]
            /\ UNCHANGED <<mainPc, fileIdx>>
    /\ UNCHANGED <<config, helper, unreadable, fs, dirs, batchI, settled, run, fsAtStart>>

\* Lines 164-168: fs.writeFile returns.
PdfWriteDone(l) ==
    /\ script = "translatePdf"
    /\ mainPc = "awaitLanguage"
    /\ l \in LangIds
    /\ tasks[l].pc = "write"
    /\ LET code == translationFormats[l].code
           d == tasks[l].doc
       IN  \/ /\ fs' = [fs EXCEPT ![code, d] = PdfTranslation(d, code)]
              /\ PdfContinue(PdfLanguageLoop([tasks EXCEPT ![l].pc = "Done"], l + 1))
           \/ /\ fs' = fs
              /\ PdfContinue(PdfLanguageLoop(CatchError(tasks, l, "write"), l + 1))
    /\ UNCHANGED <<config, helper, unreadable, dirs, batchI, settled, run, fsAtStart>>

PdfStep ==
    \E l \in 1..NumBatchLangs :
        \/ \E resp \in Responses : PdfTranslateReturn(l, resp)
        \/ PdfWriteDone(l)

\* Either translator is launched, translatePdf.js possibly over
\* translations an earlier launch has left.
PdfInit ==
    /\ \/ /\ script = "translateMd"
          /\ configJson \in ConfigFiles
          /\ files \in [1..NumDocs -> DocKinds]
          /\ fs \in {EmptyTree, LeftTree({"en"}, 1..NumDocs)}
       \/ /\ script = "translatePdf"
          /\ configJson \in ConfigFiles
          /\ files \in [1..NumDocs -> PdfKinds]
          /\ fs \in {EmptyTree, LeftTree({"fr"}, 1..NumDocs)}
    /\ translationFormats \in ShortMaps
    /\ Fresh
    /\ helper = NoCall

PdfNext ==
    \/ Next
    \/ PdfLaunch
    \/ PdfMkdirDone
    \/ PdfReadFails
    \/ PdfRead
    \/ PdfStep

PdfSpec == PdfInit /\ [][PdfNext]_vars

\* ------------------------------------------------------------ two launches, one output tree

\* translateMd.js launched NumProcs times on the same source directory
\* and output tree.  Each launch is a process of its own with its own
\* event loop; they share nothing but the file system.  The model follows
\* the task of one (document, language) pair in each process, from the
\* call of the task (line 324) on: helper.tasks[p] is the task of process
\* p, and fs and dirs are the shared tree.
Procs == 1..NumProcs

\* The language maps of the launches: a language to translate to, or the
\* source language.
RaceMaps ==
    { << [code |-> "fr", instr |-> "formal"] >>,
      << [code |-> "en", instr |-> "keep the original"] >> }

RaceInit ==
    /\ script = "processes"
    /\ configJson = "complete"
    /\ translationFormats \in RaceMaps
    /\ files \in [1..1 -> DocKinds]
    /\ fs \in {EmptyTree, LeftTree({"fr"}, {1})}
    /\ Fresh
    /\ helper = [fn |-> "task", tasks |-> [p \in Procs |-> StartTask(PendingTask(1))]]

\* fs.writeFile called with the flag 'wx': it fails when the path exists.
writeFileExclusive(exists) == ~exists

\* Line 308: fs.writeFile(outputFilePath, finalTranslation) is called with
\* no flag: it opens the path with 'w' and replaces a file that exists.
writeFileOpens(exists) == TRUE

RaceVars == <<config, unreadable, mainPc, fileIdx, batchI, tasks, settled, run, fsAtStart>>

\* Line 259 in process p: fs.mkdir(targetDir, {recursive: true}) returns.
RaceMkdirDone(p) ==
    /\ helper.fn = "task"
    /\ LET code == translationFormats[1].code
       IN  /\ helper.tasks[p].pc = "mkdir"
           /\ \/ /\ dirs' = dirs \cup {code}
                 /\ helper' = [helper EXCEPT !.tasks[p].pc = "access"]
              \/ /\ code \notin dirs
                 /\ dirs' = dirs
                 /\ helper' = [helper EXCEPT !.tasks = CatchError(@, p, "mkdir")]
    /\ UNCHANGED <<RaceVars, fs>>

\* Lines 262-300 in process p: fs.access(outputFilePath) returns, and the
\* task runs up to its next await.
RaceAccessDone(p) ==
    /\ helper.fn = "task"
    /\ LET t == helper.tasks[p]
           e == translationFormats[1]
           first == NextCalls(Plan(files[t.doc].text), 0)
           what == Decide(fs[outputFilePath(e.code, t.doc)] # NoFile, e.instr, e.code)
       IN  /\ t.pc = "access"
           /\ helper' = [helper EXCEPT !.tasks[p] =
                 CASE what = "copy" -> [t EXCEPT !.pc = "copy", !.wrote = @ + 1]
                   [] what = "translate" ->
                        [t EXCEPT !.pc = "translate",
                                  !.calls = @ \o first,
                                  !.inflight = @ \cup {first[n] : n \in DOMAIN first}]
                   [] OTHER -> [t EXCEPT !.pc = what]]
    /\ UNCHANGED <<RaceVars, fs, dirs>>

\* Lines 277-279 in process p: fs.copyFile returns; it replaces a file
\* that exists.
RaceCopyLands(p) ==
    /\ helper.fn = "task"
    /\ helper.tasks[p].pc = "copy"
    /\ fs' = [fs EXCEPT ![outputFilePath(translationFormats[1].code, 1)] = SourceCopy(1)]
    /\ helper' = [helper EXCEPT !.tasks[p].pc = "Done"]
    /\ UNCHANGED <<RaceVars, dirs>>

RaceCopyFails(p) ==
    /\ helper.fn = "task"
    /\ helper.tasks[p].pc = "copy"
    /\ helper' = [helper EXCEPT !.tasks = CatchError(@, p, "copy")]
    /\ UNCHANGED <<RaceVars, fs, dirs>>

\* Lines 292-308 in process p: the translateText call c returns.
RaceTranslateReturn(p, c, resp) ==
    /\ helper.fn = "task"
    /\ LET t == helper.tasks[p]
           plan == Plan(files[t.doc].text)
           next == NextCalls(plan, t.i + 1)
       IN  /\ t.pc = "translate"
           /\ c \in t.inflight
           /\ helper' = [helper EXCEPT !.tasks =
                 IF translateTextThrows(resp)
                 THEN CatchError([@ EXCEPT ![p].inflight = @ \ {c}], p, "translate")
                 ELSE [@ EXCEPT ![p] =
                         IF t.i + 1 < Len(plan)
                         THEN [t EXCEPT !.i = @ + 1,
                                        !.translatedChunks = Append(@, translatedChunk(c)),
                                        !.calls = @ \o next,
                                        !.inflight = (@ \ {c}) \cup
                                            {next[n] : n \in DOMAIN next}]
                         ELSE [t EXCEPT !.i = @ + 1,
                                        !.translatedChunks = Append(@, translatedChunk(c)),
                                        !.inflight = @ \ {c},
                                        !.pc = "write",
                                        !.wrote = @ + 1]]]
    /\ UNCHANGED <<RaceVars, fs, dirs>>

\* Line 308 in process p: fs.writeFile returns after it has written the
\* file.
RaceWriteLands(p) ==
    /\ helper.fn = "task"
    /\ helper.tasks[p].pc = "write"
    /\ LET path == outputFilePath(translationFormats[1].code, 1)
       IN  /\ writeFileOpens(fs[path] # NoFile)
           /\ fs' = [fs EXCEPT ![path] =
                        Translation(1, translationFormats[1].code, helper.tasks[p])]
    /\ helper' = [helper EXCEPT !.tasks[p].pc = "Done"]
    /\ UNCHANGED <<RaceVars, dirs>>

\* Lines 308-313 in process p: fs.writeFile fails.
RaceWriteFails(p) ==
    /\ helper.fn = "task"
    /\ helper.tasks[p].pc = "write"
    /\ helper' = [helper EXCEPT !.tasks = CatchError(@, p, "write")]
    /\ UNCHANGED <<RaceVars, fs, dirs>>

RaceNext ==
    \E p \in Procs :
        \/ RaceMkdirDone(p)
        \/ RaceAccessDone(p)
        \/ RaceCopyLands(p)
        \/ RaceCopyFails(p)
        \/ \E c \in 0..MaxCalls, resp \in Responses : RaceTranslateReturn(p, c, resp)
        \/ RaceWriteLands(p)
        \/ RaceWriteFails(p)

RaceSpec == RaceInit /\ [][RaceNext]_vars

\* ------------------------------------------------------------ the scheduler: claims

\* The concurrency limit of the script that runs.
Limit == IF script = "formatMd" THEN FORMAT_CONCURRENCY_LIMIT ELSE CONCURRENCY_LIMIT

Started(t) == t.starts > 0

\* The tasks that have been started and have not settled.
InFlight == { l \in DOMAIN tasks : Started(tasks[l]) /\ ~IsSettled(tasks[l]) }

\* The group of the task at position l: consecutive groups of Limit tasks,
\* in input order.
Group(l) == (l - 1) \div Limit

\* main() has left the batch loop of the tasks it holds.
LeftBatchLoop == mainPc \in {"readFile", "finished"}

Constructed == { l \in DOMAIN tasks : tasks[l].pc # "None" }

\* C1: in every reachable state, the number of tasks started and not yet
\* settled is at most the concurrency limit (10 in translateMd.js, 5 in the
\* formatting script).
C1_AtMostLimitInFlight == Cardinality(InFlight) <= Limit

\* A full batch is in flight, of more tasks than the limit.
C1_Witness ==
    /\ script = "translateMd"
    /\ Len(tasks) > CONCURRENCY_LIMIT
    /\ Cardinality(InFlight) = CONCURRENCY_LIMIT

\* C2: the tasks run in consecutive groups of at most Limit tasks, in input
\* order: the tasks of a group are started together, and no task of a later
\* group is started before every task of the earlier groups has settled.
C2_GroupByGroup ==
    \A l \in Constructed, m \in Constructed :
        /\ Group(l) = Group(m) => (Started(tasks[l]) <=> Started(tasks[m]))
        /\ (Group(l) < Group(m) /\ Started(tasks[m])) => IsSettled(tasks[l])

\* A task of the second group is in flight, after a task of the first
\* group has failed and one has succeeded.
C2_Witness ==
    /\ \E m \in InFlight : Group(m) = 1
    /\ \E l \in Constructed : Group(l) = 0 /\ tasks[l].pc = "Failed"
    /\ \E l \in Constructed : Group(l) = 0 /\ tasks[l].pc = "Done"

\* C3: in one run of translateMd.js there is one task per entry of the
\* language map of every document read, no task is started twice, and when
\* main() leaves the batch loop of a document every task of the document
\* has been started exactly once, whatever number of them failed.
C3_StartedExactlyOnce ==
    script = "translateMd" =>
        /\ Constructed \in {{}, LangIds}
        /\ \A l \in Constructed : tasks[l].starts <= 1
        /\ LeftBatchLoop => \A l \in Constructed : tasks[l].starts = 1

\* The batch loop is left, with a task of the first group failed and the
\* tasks of the second group started once.
C3_Witness ==
    /\ script = "translateMd"
    /\ LeftBatchLoop
    /\ \E l \in Constructed : Group(l) = 0 /\ tasks[l].pc = "Failed"
    /\ \E m \in Constructed : Group(m) = 1 /\ tasks[m].starts = 1 /\ IsSettled(tasks[m])

Code(l) == translationFormats[l].code

Instr(l) == translationFormats[l].instr

\* The tasks of translateMd.js that are constructed.
LanguageTasks == IF script = "translateMd" THEN Constructed ELSE {}

\* C5: the translation calls of a task are strictly sequential, in chunk
\* order: at most one call of the task is in flight, the calls dispatched
\* are the first calls of the plan in order, and a call is dispatched only
\* when the results of all the calls before it are in.
C5_ChunksSequential ==
    \A l \in LanguageTasks :
        LET t == tasks[l]
            plan == Plan(files[t.doc].text)
        IN  /\ Cardinality(t.inflight) <= 1
            /\ Len(t.calls) <= Len(plan)
            /\ t.calls = SubSeq(plan, 1, Len(t.calls))
            /\ Len(t.calls) <= t.i + 1
            /\ t.inflight \subseteq
                   (IF Len(t.calls) > 0 THEN {t.calls[Len(t.calls)]} ELSE {})

\* The call for the second chunk of a large document is in flight, after
\* the result of the first.
C5_Witness ==
    \E l \in LanguageTasks :
        /\ isLargeFile(files[tasks[l].doc].text)
        /\ tasks[l].i = 1
        /\ tasks[l].calls = <<1, 2>>
        /\ tasks[l].inflight = {2}

\* C6: a task one of whose translation calls raised an error has ended
\* Failed, and no file is at its destination path, whatever number of
\* chunks it had translated before.
C6_NoPartialOutput ==
    \A l \in LanguageTasks :
        tasks[l].err = "translate" =>
            /\ tasks[l].pc = "Failed"
            /\ tasks[l].wrote = 0
            /\ ~Exists(fs, Code(l), tasks[l].doc)

\* The call for a later chunk has failed, after an earlier chunk was
\* translated.
C6_Witness ==
    \E l \in LanguageTasks :
        /\ tasks[l].pc = "Failed"
        /\ tasks[l].err = "translate"
        /\ tasks[l].i >= 1

\* C7: the step in which a task fails changes no other task and does not
\* move main(): the siblings go on, and so does the run.
C7_FailureIsolated ==
    [][\A l \in LanguageTasks :
          (l \in DOMAIN tasks' /\ tasks[l].pc # "Failed" /\ tasks'[l].pc = "Failed")
              => /\ \A m \in DOMAIN tasks : m # l => tasks'[m] = tasks[m]
                 /\ mainPc' = mainPc
                 /\ fileIdx' = fileIdx
                 /\ fs' = fs]_vars

\* The de task of the first document has failed and has no file, the fr
\* task of that document has written its file, and a task of the second
\* document has written its file.
C7_Witness ==
    /\ script = "translateMd"
    /\ \E l \in LangIds : Code(l) = "de" /\ Instr(l) = "formal"
    /\ ~Exists(fs, "de", 1)
    /\ fs["fr", 1].kind = "translation"
    /\ \E l \in LanguageTasks : tasks[l].doc = 2 /\ tasks[l].pc = "Done"

-----------------------------------------------------------------------------
\* The idempotency guard (lines 261-268) and the source-language copy
\* (lines 275-280).

\* The destination of task l held a file when the present run started.
ExistedAtStart(l) == Exists(fsAtStart, Code(l), tasks[l].doc)

\* Task l has done nothing to the service or to the output tree.
DidNothing(l) ==
    /\ tasks[l].calls = <<>>
    /\ tasks[l].inflight = {}
    /\ tasks[l].wrote = 0

C9_SkippedIffExists ==
    /\ [](\A l \in LanguageTasks :
             tasks[l].pc = "SkippedExists" =>
                 /\ DidNothing(l)
                 /\ fs[Code(l), tasks[l].doc] = fsAtStart[Code(l), tasks[l].doc])
    /\ [][\A l \in LanguageTasks :
             l \in DOMAIN tasks' =>
                 /\ (tasks[l].pc = "access" /\ tasks'[l].pc # "access")
                       => (tasks'[l].pc = "SkippedExists"
                              <=> Exists(fs, Code(l), tasks[l].doc))
                 /\ (tasks[l].pc # "SkippedExists" /\ tasks'[l].pc = "SkippedExists")
                       => tasks[l].pc = "access"]_vars

\* The en task, whose instruction is the sentinel, is SkippedExists over a
\* file that was there before the run.
C9_Witness ==
    \E l \in LanguageTasks :
        /\ tasks[l].pc = "SkippedExists"
        /\ Code(l) = "en"
        /\ ToLowerCase(Instr(l)) = "don't translate"
        /\ fs["en", tasks[l].doc] = OldFile

\* C10, as stated: a task for the code en whose destination was missing,
\* once it has settled without an error, has copied the source document to
\* the destination without a translation call, also when its instruction
\* is the sentinel.
C10_SourceLanguageCopied ==
    \A l \in LanguageTasks :
        (/\ Code(l) = "en"
         /\ ~ExistedAtStart(l)
         /\ IsSettled(tasks[l])
         /\ tasks[l].pc # "Failed")
            => /\ tasks[l].pc = "Done"
               /\ tasks[l].calls = <<>>
               /\ fs["en", tasks[l].doc] = SourceCopy(tasks[l].doc)

\* The en task with the sentinel instruction has settled and no file is at
\* its destination.
C10_Witness ==
    \E l \in LanguageTasks :
        /\ Code(l) = "en"
        /\ ToLowerCase(Instr(l)) = "don't translate"
        /\ tasks[l].pc = "SkippedNoTranslate"
        /\ ~Exists(fs, "en", tasks[l].doc)

-----------------------------------------------------------------------------
\* The sentinel instruction (translateMd.js lines 270-273, translatePdf.js
\* lines 154-158).

\* The spellings of the sentinel instruction in the language maps.
SentinelSpellings == {"don't translate", "Don't Translate"}

\* The entries of the language map whose iteration or task exists.
Entered == { l \in LangIds : tasks[l].pc # "None" }

\* C11: for a language whose instruction is the sentinel in any letter
\* case, in translateMd.js and in translatePdf.js, no translation call is
\* made, no copy or write is issued, and no file of that language is
\* created or changed.
C11_SentinelSuppresses ==
    \A l \in LangIds :
        Instr(l) \in SentinelSpellings =>
            /\ \A d \in DocIds : fs[Code(l), d] = fsAtStart[Code(l), d]
            /\ l \in Entered =>
                  /\ DidNothing(l)
                  /\ tasks[l].pc \notin {"copy", "translate", "write", "Done"}

\* The entry spelled "Don't Translate" has been passed over for the last
\* document, the other entry has its translation.
C11_Witness ==
    /\ mainPc = "finished"
    /\ \E l \in Entered :
          /\ Instr(l) = "Don't Translate"
          /\ tasks[l].pc = "SkippedNoTranslate"
    /\ \E l \in Entered : tasks[l].pc = "Done"

-----------------------------------------------------------------------------
\* The number of calls of a task (lines 248 and 284-300).

\* The documents of the corpus that have 25,000 characters.
ScenarioDocs == { k \in DOMAIN Corpus : Len(Corpus[k]) = 25000 }

\* The documents of the corpus without a paragraph, sentence or line
\* boundary.
UnbrokenDocs ==
    { k \in DOMAIN Corpus :
        \A p \in DOMAIN Corpus[k] :
            /\ Corpus[k][p] # "\n"
            /\ ~(Corpus[k][p] = "." /\ p < Len(Corpus[k]) /\ Corpus[k][p + 1] = " ") }

\* Task l has received the result of every translation call it had to make.
Translated(l) ==
    \/ tasks[l].pc \in {"write", "Done"} /\ tasks[l].i > 0
    \/ tasks[l].pc = "Failed" /\ tasks[l].err = "write"

\* C12, as stated: a translated task of a document of 25,000 characters
\* has issued exactly 3 translation calls.
C12_ExactlyThreeCalls ==
    \A l \in LanguageTasks :
        (files[tasks[l].doc].text \in ScenarioDocs /\ Translated(l))
            => Len(tasks[l].calls) = 3

\* C12, amended: a translated task of a document of 25,000 characters has
\* issued one call per chunk of splitTextIntoChunks(text, CHUNK_SIZE), in chunk
\* order; the chunks are at least 3, and exactly 3 when the document holds
\* no boundary (two hard cuts).
C12_OneCallPerChunk ==
    \A l \in LanguageTasks :
        LET k == files[tasks[l].doc].text
            n == ChunkCount[k]
        IN  (k \in ScenarioDocs /\ Translated(l))
                => /\ tasks[l].calls = [j \in 1..n |-> j]
                   /\ n >= 3
                   /\ k \in UnbrokenDocs => n = 3

\* A task of the document with two paragraph breaks has written its
\* translation after 4 calls.
C12_Witness ==
    \E l \in LanguageTasks :
        /\ files[tasks[l].doc].text \in ScenarioDocs
        /\ tasks[l].pc = "Done"
        /\ Len(tasks[l].calls) = 4
        /\ fs[Code(l), tasks[l].doc].kind = "translation"

\* Task l is for a language that is neither the source language nor
\* skipped: no file was at its destination, and its instruction is not the
\* sentinel.
ToTranslate(l) ==
    /\ ~ExistedAtStart(l)
    /\ Instr(l) \notin SentinelSpellings
    /\ Code(l) # "en"

\* Task l has not yet passed the checks of lines 261-280.
Deciding(l) ==
    \/ tasks[l].pc \in {"Pending", "mkdir", "access"}
    \/ tasks[l].pc = "Failed" /\ tasks[l].err = "mkdir"

\* C13: for a document shorter than the threshold, a task that is neither
\* skipped nor for the source language makes, once it is past its checks,
\* exactly one translation call, the call with the whole text (numbered
\* 0, line 299), and never another one.
C13_OneWholeDocumentCall ==
    \A l \in LanguageTasks :
        Len(Corpus[files[tasks[l].doc].text]) < LARGE_FILE_THRESHOLD =>
            /\ tasks[l].calls \in {<<>>, <<0>>}
            /\ (ToTranslate(l) /\ ~Deciding(l)) => tasks[l].calls = <<0>>

\* The task of a short document has written the translation it got from
\* its one call.
C13_Witness ==
    \E l \in LanguageTasks :
        /\ Len(Corpus[files[tasks[l].doc].text]) < LARGE_FILE_THRESHOLD
        /\ ToTranslate(l)
        /\ tasks[l].pc = "Done"
        /\ tasks[l].calls = <<0>>
        /\ fs[Code(l), tasks[l].doc].kind = "translation"

-----------------------------------------------------------------------------
\* splitTextIntoChunks (lines 123-158).

SplitCalled == helper.fn = "splitTextIntoChunks"

SplitReturned == SplitCalled /\ helper.pc = "returned"

\* C14: the chunks returned, concatenated in index order, are the text: at
\* every moment of the loop the chunks pushed so far are the text up to
\* the cursor, and the chunks returned are the whole text.  (They are the
\* chunks the tasks of translateMd.js are planned with.)
C14_ConcatIsText ==
    SplitCalled =>
        /\ helper.pc = "while" =>
              Concat(helper.chunks) = Substring(helper.text, 0, helper.startIndex)
        /\ helper.pc = "returned" =>
              /\ Concat(helper.chunks) = helper.text
              /\ helper.chunks = splitTextIntoChunks(helper.text, helper.maxSize)

\* A text of boundaries only has been returned in several chunks.
C14_Witness ==
    /\ SplitReturned
    /\ Len(helper.text) = MaxTextLen
    /\ \A p \in DOMAIN helper.text : helper.text[p] # "a"
    /\ Len(helper.chunks) > 2

\* C15, as stated: every chunk returned has at most maxSize characters.
C15_ChunkAtMostMaxSize ==
    SplitReturned =>
        \A j \in DOMAIN helper.chunks : Len(helper.chunks[j]) <= helper.maxSize

\* A chunk longer than maxSize has been returned: the text "aa\n\na" with
\* maxSize 2 has the first chunk "aa\n\n".
C15_Witness ==
    /\ SplitReturned
    /\ helper.text = <<"a", "a", "\n", "\n", "a">>
    /\ helper.maxSize = 2
    /\ helper.chunks[1] = <<"a", "a", "\n", "\n">>

\* C16: splitTextIntoChunks terminates: every iteration of the loop moves
\* the cursor forward, staying within the text, or leaves the loop, and
\* the function returns.
C16_SplitTerminates ==
    /\ [][(SplitCalled /\ helper.pc = "while") =>
             \/ /\ helper'.pc = "while"
                /\ helper'.startIndex > helper.startIndex
                /\ helper'.startIndex <= Len(helper.text)
             \/ helper'.pc = "returned"]_vars
    /\ (SplitCalled => <>SplitReturned)

\* A text made of line breaks only has been split with maxSize 1 and
\* returned, one chunk per character.
C16_Witness ==
    /\ SplitReturned
    /\ helper.maxSize = 1
    /\ helper.text = [p \in 1..MaxTextLen |-> "\n"]
    /\ Len(helper.chunks) > 1

-----------------------------------------------------------------------------
\* adjustHtmlImagePaths (lines 161-172).

AdjustCalled == helper.fn = "adjustHtmlImagePaths"

\* C17: adjustHtmlImagePaths is idempotent: called on the text it has
\* returned, it returns that text.
C17_AdjustIdempotent ==
    (AdjustCalled /\ helper.pc = "returned twice") =>
        helper.returned[2] = helper.returned[1]

\* The function has rewritten a path in its first call and has been
\* called again on the result.
C17_Witness ==
    /\ AdjustCalled
    /\ helper.pc = "returned twice"
    /\ helper.returned[1] # helper.htmlContent
    /\ \E j \in DOMAIN SrcsFrom(helper.htmlContent, 1) :
          SrcsFrom(helper.htmlContent, 1)[j] = <<"/", "a">>

\* A reference that is an absolute URL (its scheme in either letter case)
\* or a data URI.
AbsoluteOrData(src) ==
    \/ MatchesAt(src, 1, HttpPrefix)
    \/ MatchesAt(src, 1, HttpsPrefix)
    \/ MatchesAt(src, 1, DataPrefix)

\* C18, as stated: every reference of the text that is an absolute URL or
\* a data URI is the same in the text returned.
C18_AbsoluteUnchanged ==
    (AdjustCalled /\ helper.pc = "returned") =>
        LET before == SrcsFrom(helper.htmlContent, 1)
            after == SrcsFrom(helper.returned[1], 1)
        IN  /\ Len(after) = Len(before)
            /\ \A j \in DOMAIN before :
                  AbsoluteOrData(before[j]) => after[j] = before[j]

\* The reference HTTP://a has been returned as ../en/HTTP://a.
C18_Witness ==
    /\ AdjustCalled
    /\ helper.pc = "returned"
    /\ helper.htmlContent =
          ImgOpen \o <<" ">> \o SrcOpen
              \o <<"H", "T", "T", "P", ":", "/", "/", "a">> \o <<"\"", ">">>
    /\ helper.returned[1] =
          ImgOpen \o <<" ">> \o SrcOpen \o EnPrefix
              \o <<"H", "T", "T", "P", ":", "/", "/", "a">> \o <<"\"", ">">>

-----------------------------------------------------------------------------
\* The file loop (lines 229-332).

\* The tasks that are started and not settled.
Unsettled == { l \in LanguageTasks : ~IsSettled(tasks[l]) }

\* C19: documents are processed one at a time: the tasks that exist are
\* the tasks of one document, a task that has not settled is a task of the
\* document the file loop is at, and the tasks of another document are
\* constructed (and started) only in a step before which every task of the
\* document before has settled.
C19_OneDocumentAtATime ==
    /\ [](/\ \A l, n \in LanguageTasks : tasks[l].doc = tasks[n].doc
          /\ \A l \in Unsettled : tasks[l].doc = fileIdx /\ mainPc = "awaitBatch")
    /\ [][\A l \in DOMAIN tasks :
             (l \in DOMAIN tasks' /\ script = "translateMd"
                /\ tasks'[l].pc # "None" /\ tasks'[l].doc # tasks[l].doc)
                 => /\ Unsettled = {}
                    /\ tasks'[l].doc = fileIdx
                    /\ tasks'[l].doc > tasks[l].doc]_vars

\* The tasks of the second document are in flight, after the tasks of the
\* first have written their files.
C19_Witness ==
    /\ fileIdx = 2
    /\ Unsettled # {}
    /\ \E c \in AllCodes : fs[c, 1].kind = "translation"

\* C20: a document that could not be read has no task (so no translation
\* call and no copy is made for it) and no file of the output tree is
\* created or changed for it in any language; the step in which the read
\* fails constructs no task, leaves the tree as it is and takes the file
\* loop to the next document, or to its end after the last one.
C20_UnreadableSkipped ==
    /\ [](\A d \in unreadable :
             /\ \A l \in LanguageTasks : tasks[l].doc # d
             /\ \A c \in AllCodes : fs[c, d] = fsAtStart[c, d]
             /\ mainPc \in {"readFile", "awaitBatch", "finished"}
             /\ d < fileIdx \/ (d = fileIdx /\ mainPc = "finished"))
    /\ [][\A d \in unreadable' \ unreadable :
             /\ d = fileIdx
             /\ \A l \in DOMAIN tasks' : tasks'[l] = NoTask
             /\ fs' = fs
             /\ IF d < Len(files)
                THEN fileIdx' = d + 1 /\ mainPc' = "readFile"
                ELSE mainPc' = "finished"]_vars

\* The first document could not be read, and a task of the second one has
\* written its translation.
C20_Witness ==
    /\ 1 \in unreadable
    /\ \E l \in LanguageTasks :
          /\ tasks[l].doc = 2
          /\ tasks[l].pc = "Done"
          /\ fs[Code(l), 2].kind = "translation"
    /\ \A c \in AllCodes : fs[c, 1] = fsAtStart[c, 1]

-----------------------------------------------------------------------------
\* Errors of a task after its translation (lines 308-313).

\* C21: a task whose fs.writeFile has failed has ended Failed after all
\* its translation calls have returned a result, and its error has not
\* reached main(); the step in which the write fails changes no other
\* task, no file and not the position of main(), so the siblings and the
\* later documents go on.
C21_WriteErrorIsolated ==
    /\ [](\A l \in LanguageTasks :
             tasks[l].err = "write" =>
                 /\ tasks[l].pc = "Failed"
                 /\ tasks[l].calls = Plan(files[tasks[l].doc].text)
                 /\ tasks[l].i = Len(tasks[l].calls)
                 /\ tasks[l].inflight = {}
                 /\ mainPc \in {"awaitBatch", "readFile", "finished"})
    /\ [][\A l \in LanguageTasks :
             (l \in DOMAIN tasks' /\ tasks[l].pc = "write" /\ tasks'[l].pc = "Failed")
                 => /\ tasks'[l].err = "write"
                    /\ \A n \in DOMAIN tasks : n # l => tasks'[n] = tasks[n]
                    /\ mainPc' = mainPc
                    /\ fileIdx' = fileIdx
                    /\ fs' = fs]_vars

\* The write of a task has failed after its translation, a sibling has
\* written its translation, and main() has read on past the batch.
C21_Witness ==
    /\ \E l \in LanguageTasks :
          /\ tasks[l].err = "write"
          /\ tasks[l].calls # <<>>
          /\ ~Exists(fs, Code(l), tasks[l].doc)
    /\ \E l \in LanguageTasks :
          /\ tasks[l].pc = "Done"
          /\ fs[Code(l), tasks[l].doc].kind = "translation"
    /\ mainPc \in {"readFile", "finished"}

-----------------------------------------------------------------------------
\* The translation calls of a run (lines 283-313).

\* The call numbers of the plan of a task that were sent more than once.
SentAgain(l) ==
    { c \in 0..MaxCalls :
        Cardinality({ n \in DOMAIN tasks[l].calls : tasks[l].calls[n] = c }) > 1 }

\* C22: nothing is retried: no chunk and no whole document is sent to the
\* translation client more than once by its task, every call sent is a
\* call of the plan, a task is constructed once for its document, and a
\* task that has failed sends nothing more, whichever step failed.
C22_NoRetry ==
    /\ [](\A l \in LanguageTasks :
             /\ SentAgain(l) = {}
             /\ Len(tasks[l].calls) <= Len(Plan(files[tasks[l].doc].text))
             /\ tasks[l].starts <= 1
             /\ tasks[l].pc = "Failed" => tasks[l].inflight = {})
    /\ [][\A l \in LanguageTasks :
             (l \in DOMAIN tasks' /\ tasks[l].pc = "Failed" /\ tasks'[l].doc = tasks[l].doc)
                 => tasks'[l] = tasks[l]]_vars

\* The second call of a chunked document has failed after the first
\* chunk was translated, and the batch has settled with the first chunk
\* sent once.
C22_Witness ==
    \E l \in LanguageTasks :
        /\ tasks[l].pc = "Failed"
        /\ tasks[l].err = "translate"
        /\ tasks[l].calls = <<1, 2>>
        /\ tasks[l].i = 1
        /\ mainPc \in {"readFile", "finished"}

-----------------------------------------------------------------------------
\* The configuration (translateMd.js lines 10-25 and 192; translatePdf.js
\* lines 8-18 and 126).

\* C23: with a config.json that is missing or lacks a required field the
\* run does not get past loadConfig(): it is about to load the
\* configuration or has exited with code 1, no document was read, no task
\* was constructed, no translation call was made and no file was written.
C23_BadConfigAborts ==
    configJson # "complete" =>
        /\ mainPc \in {"loadConfig", "exit1"}
        /\ fileIdx = 0
        /\ unreadable = {}
        /\ \A l \in DOMAIN tasks : tasks[l] = NoTask
        /\ fs = fsAtStart

\* translatePdf.js was launched with a config.json that lacks a required
\* field, has read a PDF and has written a translation of it.
C23_Witness ==
    /\ script = "translatePdf"
    /\ configJson = "incomplete"
    /\ \E c \in AllCodes : fs[c, 1].kind = "translation" /\ ~Exists(fsAtStart, c, 1)

-----------------------------------------------------------------------------
\* The states of a task (lines 257-314).

\* The state of the per-language state machine a task is in: Pending up
\* to the decision after fs.access, Copied while fs.copyFile is awaited,
\* Translating while translateText calls are awaited, Translated while
\* fs.writeFile is awaited, and the four ways a task ends.
State(t) ==
    CASE t.pc \in {"Pending", "mkdir", "access"} -> "Pending"
      [] t.pc = "copy" -> "Copied"
      [] t.pc = "translate" -> "Translating"
      [] t.pc = "write" -> "Translated"
      [] OTHER -> t.pc

\* The transitions of a task whose file operations all succeed: the two
\* skips (lines 265 and 272), the copy (lines 277-279), and the translation
\* (lines 284-308) with the catch of an error of translateText.
ListedTransitions ==
    { <<"Pending", "SkippedExists">>, <<"Pending", "SkippedNoTranslate">>,
      <<"Pending", "Copied">>, <<"Pending", "Translating">>,
      <<"Copied", "Done">>,
      <<"Translating", "Translated">>, <<"Translating", "Failed">>,
      <<"Translated", "Done">> }

\* The transitions into Failed of the catch of the task (lines 311-313)
\* for an error of fs.mkdir, fs.copyFile or fs.writeFile.
CaughtTransitions ==
    { <<"Pending", "Failed">>, <<"Copied", "Failed">>, <<"Translated", "Failed">> }

\* The state of task l changes along one of the transitions in allowed,
\* or not at all, as long as the task stands for the same document.
MovesAlong(l, allowed) ==
    (l \in DOMAIN tasks' /\ tasks'[l].doc = tasks[l].doc)
        => \/ State(tasks'[l]) = State(tasks[l])
           \/ <<State(tasks[l]), State(tasks'[l])>> \in allowed

\* C24, as stated: a task moves only along the listed transitions.
C24_OnlyListedTransitions ==
    [][\A l \in LanguageTasks : MovesAlong(l, ListedTransitions)]_vars

\* C24, amended: a task moves only along the listed transitions and the
\* transitions into Failed from Pending (fs.mkdir fails), from Copied
\* (fs.copyFile fails) and from Translated (fs.writeFile fails); a task in
\* SkippedExists, SkippedNoTranslate, Done or Failed does not move again.
C24_ListedOrCaughtTransitions ==
    [][\A l \in LanguageTasks :
          MovesAlong(l, ListedTransitions \cup CaughtTransitions)]_vars

\* The copy of the source language has failed, the write of a translation
\* has failed and a third task is Done.
C24_Witness ==
    /\ \E l \in LanguageTasks : tasks[l].pc = "Failed" /\ tasks[l].err = "copy"
    /\ \E l \in LanguageTasks : tasks[l].pc = "Failed" /\ tasks[l].err = "write"
    /\ \E l \in LanguageTasks : tasks[l].pc = "Done"

-----------------------------------------------------------------------------
\* The destination paths (lines 252-254).

\* The tasks that await fs.copyFile or fs.writeFile.
Writing == { l \in LanguageTasks : tasks[l].pc \in {"copy", "write"} }

-----------------------------------------------------------------------------
\* Two launches on one output tree (lines 261-308).

\* The task of process p has found no file at its check and has gone on.
PassedCheck(p) ==
    /\ helper.tasks[p].pc \in {"translate", "write", "Done", "Failed"}
    /\ helper.tasks[p].calls # <<>>

\* C26: the check of line 263 and the write of line 308 are not one step:
\* the task of a process is SkippedExists only when the file is there, and
\* a task that has found no file goes on whatever the other process does
\* meanwhile; when it comes to its write the write can land, also on a
\* file the other process has written since the check.
C26_CheckThenWrite ==
    \A p \in Procs :
        /\ helper.tasks[p].pc = "SkippedExists"
              => Exists(fs, translationFormats[1].code, 1)
        /\ helper.tasks[p].pc = "write" => ENABLED RaceWriteLands(p)

\* The file was missing at the start, both processes have passed the
\* check for the pair, both have made the translation calls of the whole
\* plan, and both have written the file.
C26_Witness ==
    /\ ~Exists(fsAtStart, translationFormats[1].code, 1)
    /\ \A p \in Procs :
          /\ PassedCheck(p)
          /\ helper.tasks[p].pc = "Done"
          /\ helper.tasks[p].calls = Plan(files[1].text)
          /\ helper.tasks[p].wrote = 1
    /\ fs[outputFilePath(translationFormats[1].code, 1)].kind = "translation"

-----------------------------------------------------------------------------
\* The cut of the splitter (lines 133-155).

\* The 0-based indices at which pat occurs in text.
Occurrences(text, pat) ==
    { p \in 0..(Len(text) - Len(pat)) : \A j \in 1..Len(pat) : text[p + j] = pat[j] }

\* The end of the last occurrence of pat that starts after the cursor and
\* before the index end; 0 when there is none.
CutAfterLast(text, pat, cursor, end) ==
    LET found == { p \in Occurrences(text, pat) : cursor < p /\ p < end }
    IN  IF found = {} THEN 0 ELSE Max(found) + Len(pat)

\* The cut after the last boundary between the cursor and the index end,
\* a paragraph break before a sentence end before a line break; the hard
\* cut at candidate when there is no boundary.
CutByPriority(text, cursor, end, candidate) ==
    LET para == CutAfterLast(text, <<"\n", "\n">>, cursor, end)
        sent == CutAfterLast(text, <<".", " ">>, cursor, end)
        line == CutAfterLast(text, <<"\n">>, cursor, end)
    IN  IF para > 0 THEN para
        ELSE IF sent > 0 THEN sent
        ELSE IF line > 0 THEN line
        ELSE candidate

\* An iteration of the loop that cuts is taken.
Cuts ==
    /\ SplitCalled
    /\ helper.pc = "while"
    /\ helper'.pc = "while"
    /\ Len(helper'.chunks) = Len(helper.chunks) + 1

\* C27, as stated: when the rest after the cursor is longer than maxSize,
\* the chunk pushed ends right after the last boundary that starts after
\* the cursor and before the candidate end cursor + maxSize, a paragraph
\* break before a sentence end before a line break, and at the candidate
\* end when there is none; the chunk is the text from the cursor to the
\* cut, and the next chunk starts at the cut.
C27_CutAfterLastBoundary ==
    [][Cuts =>
         LET s == helper.startIndex
             e == s + helper.maxSize
             cut == CutByPriority(helper.text, s, e, e)
         IN  /\ helper'.startIndex = cut
             /\ helper'.chunks[Len(helper'.chunks)] = SubSeq(helper.text, s + 1, cut)]_vars

\* The first chunk of "aa\n\na" with maxSize 2 was cut at 4, after the
\* paragraph break that starts at the candidate end 2.
C27_Witness ==
    /\ SplitCalled
    /\ helper.text = <<"a", "a", "\n", "\n", "a">>
    /\ helper.maxSize = 2
    /\ helper.chunks = << <<"a", "a", "\n", "\n">> >>
    /\ helper.startIndex = 4

-----------------------------------------------------------------------------
\* The references that are rewritten (lines 161-172).

\* The src attribute of the img tag that opens at position s: the first
\* src=" of the tag that follows a blank, with its value up to the next
\* quote; key is 0 when s opens no img tag with such an attribute.
AttributeFrom(text, s) ==
    IF ~MatchesAt(text, s, ImgOpen) THEN [key |-> 0, quote |-> 0]
    ELSE LET keys == { q \in (s + Len(ImgOpen) + 1)..Len(text) :
                          /\ \A p \in (s + Len(ImgOpen))..(q - 1) : text[p] # ">"
                          /\ text[q - 1] = " "
                          /\ MatchesAt(text, q, SrcOpen)
                          /\ q + Len(SrcOpen) <= Len(text)
                          /\ text[q + Len(SrcOpen)] # "\""
                          /\ \E r \in (q + Len(SrcOpen) + 1)..Len(text) : text[r] = "\"" }
         IN  IF keys = {} THEN [key |-> 0, quote |-> 0]
             ELSE LET q == CHOOSE k \in keys : \A o \in keys : k <= o
                  IN  [key |-> q,
                       quote |-> CHOOSE r \in (q + Len(SrcOpen) + 1)..Len(text) :
                                    /\ text[r] = "\""
                                    /\ \A p \in (q + Len(SrcOpen))..(r - 1) : text[p] # "\""]

\* The image references of a text: the values of the src attributes of its
\* img tags, from left to right.
RECURSIVE ReferencesFrom(_, _)
ReferencesFrom(text, s) ==
    IF s > Len(text) THEN <<>>
    ELSE LET at == AttributeFrom(text, s)
         IN  IF at.key = 0 THEN ReferencesFrom(text, s + 1)
             ELSE <<SrcOf(text, at)>> \o ReferencesFrom(text, at.quote + 1)

\* C28, as stated: in the text returned every image reference that is not
\* an absolute URL and not a data URI starts with "../en/": the references
\* that did not were prefixed.
C28_RelativePrefixed ==
    (AdjustCalled /\ helper.pc = "returned") =>
        LET after == ReferencesFrom(helper.returned[1], 1)
        IN  \A j \in DOMAIN after :
               AbsoluteOrData(after[j]) \/ StartsWith(after[j], EnPrefix)

\* <img src="b" x-src="a"> has been returned with the value of x-src
\* prefixed and the reference b as it was.
C28_Witness ==
    /\ AdjustCalled
    /\ helper.pc = "returned"
    /\ helper.htmlContent =
          ImgOpen \o <<" ">> \o SrcOpen \o <<"b", "\"", " ", "x", "-">>
              \o SrcOpen \o <<"a", "\"", ">">>
    /\ helper.returned[1] =
          ImgOpen \o <<" ">> \o SrcOpen \o <<"b", "\"", " ", "x", "-">>
              \o SrcOpen \o EnPrefix \o <<"a", "\"", ">">>
    /\ ReferencesFrom(helper.returned[1], 1) = << <<"b">> >>

-----------------------------------------------------------------------------
\* What is written (lines 275-308).

\* C29: a translation that is written has its image paths adjusted if and
\* only if its document is an HTML file, and it is never the file of the
\* source language 'en'; the copy of the source and every file of a
\* Markdown document are written without the adjustment.
C29_AdjustedIffHtmlTranslation ==
    \A c \in AllCodes : \A d \in DocIds :
        /\ fs[c, d].kind = "translation"
              => /\ c # "en"
                 /\ fs[c, d].adjusted <=> files[d].fileType = "html"
        /\ fs[c, d].kind = "source" => c = "en" /\ ~fs[c, d].adjusted
        /\ files[d].fileType = "markdown" => ~fs[c, d].adjusted
        /\ c = "en" => ~fs[c, d].adjusted

\* Of an HTML document the French translation is written with its paths
\* adjusted and the source copy without, and of a Markdown document the
\* French translation is written without the adjustment.
C29_Witness ==
    \E d, e \in DocIds :
        /\ files[d].fileType = "html"
        /\ fs["fr", d].kind = "translation" /\ fs["fr", d].adjusted
        /\ fs["en", d].kind = "source" /\ ~fs["en", d].adjusted
        /\ files[e].fileType = "markdown"
        /\ fs["fr", e].kind = "translation" /\ ~fs["fr", e].adjusted

\* The translations of the chunks of document k, in the order of the
\* chunks.
InChunkOrder(k) == [j \in 1..ChunkCount[k] |-> translatedChunk(j)]

\* C30: for a chunked document whose calls have all succeeded, the array
\* joined holds one translation per chunk in the order of the chunks, and
\* the text written is these translations with "\n\n" between each two:
\* none is missing, twice or out of its place.
C30_JoinedInChunkOrder ==
    \A l \in LanguageTasks :
        LET k == files[tasks[l].doc].text
            written == fs[Code(l), tasks[l].doc].pieces
        IN  (isLargeFile(k) /\ Translated(l) /\ tasks[l].pc # "Failed") =>
                /\ tasks[l].translatedChunks = InChunkOrder(k)
                /\ tasks[l].pc = "Done" =>
                      /\ Len(written) = 2 * ChunkCount[k] - 1
                      /\ \A n \in DOMAIN written :
                            written[n] = IF n % 2 = 1
                                         THEN translatedChunk((n + 1) \div 2)
                                         ELSE "\n\n"

\* The translation of a document of four chunks has been written.
C30_Witness ==
    \E l \in LanguageTasks :
        /\ tasks[l].pc = "Done"
        /\ ChunkCount[files[tasks[l].doc].text] = 4
        /\ fs[Code(l), tasks[l].doc].pieces =
              <<"piece 1", "\n\n", "piece 2", "\n\n", "piece 3", "\n\n", "piece 4">>

-----------------------------------------------------------------------------
\* A maxSize that is not positive (lines 123-158).

\* splitTextIntoChunks was called on a text that is not empty with a
\* maxSize of 0 or less.
BadSizeCall ==
    /\ SplitCalled
    /\ helper.maxSize <= 0
    /\ helper.text # <<>>

\* C31, as stated: a call with maxSize <= 0 on a text that is not empty
\* does not go round the loop and does not return chunks: no chunk is
\* pushed and the function does not return.
C31_BadSizeFailsFast ==
    BadSizeCall => helper.chunks = <<>> /\ helper.pc # "returned"

\* The call splitTextIntoChunks("a", 0) has pushed three empty chunks, and
\* its cursor is where it was at the start.
C31_Witness ==
    /\ BadSizeCall
    /\ helper.text = <<"a">>
    /\ helper.maxSize = 0
    /\ helper.chunks = << <<>>, <<>>, <<>> >>
    /\ helper.startIndex = 0
    /\ helper.pc = "while"

\* ------------------------------------------------------------ translateText: claims

\* The contents that are empty after trim(): nothing but blanks and line
\* breaks.
BlankContents == { content \in Contents : Trim(content) = <<>> }

\* C32: a response whose content is empty or only whitespace is an error:
\* translateText throws for every such content, the step in which such a
\* response arrives leaves the task that issued the call Failed and the
\* tree as it was, and a task that failed on a translation call has no file
\* at its destination.
C32_BlankResponseFails ==
    /\ [](/\ \A content \in BlankContents : translatedContent(content).threw
          /\ ResponseContent("blank") \in BlankContents
          /\ \A l \in LanguageTasks :
                tasks[l].pc = "Failed" /\ tasks[l].err = "translate"
                    => ~Exists(fs, Code(l), tasks[l].doc))
    /\ [][\A l \in DOMAIN tasks, c \in 0..MaxCalls :
            TranslateReturn(l, c, "blank")
                => /\ tasks'[l].pc = "Failed"
                   /\ tasks'[l].err = "translate"
                   /\ fs' = fs]_vars

C32_Witness ==
    \E l \in LanguageTasks :
        /\ tasks[l].pc = "Failed"
        /\ tasks[l].err = "translate"
        /\ tasks[l].inflight = {}
        /\ Len(tasks[l].calls) = 1
        /\ ~Exists(fs, Code(l), tasks[l].doc)
        /\ translateTextThrows("blank")

\* C33: whenever translateText returns normally its result is a non-empty
\* string, also after the fences have been stripped.
C33_ResultNotEmpty ==
    helper.fn = "translateText" /\ helper.pc = "returned" => helper.value # <<>>

\* The response that is an opening fence, a line break and a closing fence
\* has been returned as the empty string.
C33_Witness ==
    /\ helper.fn = "translateText"
    /\ helper.content = startFenceMd \o <<"\n">> \o endFence
    /\ helper.pc = "returned"
    /\ helper.value = <<>>

\* ------------------------------------------------------------ the threshold: claims

\* The tasks that have translated their document: every call they made has
\* returned a translation.
TranslatedAll ==
    { l \in LanguageTasks :
        /\ tasks[l].pc \in {"write", "Done"}
        /\ tasks[l].calls # <<>> }

\* C34: a task whose calls all succeed issues more than one translation
\* call exactly when its document is longer than the threshold: a document
\* of the threshold length gets the one whole-document call, and a chunked
\* document has at least two chunks.
C34_ManyCallsIffOverThreshold ==
    \A l \in TranslatedAll :
        LET k == files[tasks[l].doc].text
        IN  /\ Len(tasks[l].calls) > 1 <=> Len(Corpus[k]) > LARGE_FILE_THRESHOLD
            /\ Len(Corpus[k]) = LARGE_FILE_THRESHOLD => tasks[l].calls = <<0>>
            /\ isLargeFile(k) => ChunkCount[k] >= 2

\* The document of one character more than the threshold that ends with a
\* line break has been translated with one call, for its one chunk.
C34_Witness ==
    \E l \in TranslatedAll :
        /\ files[tasks[l].doc].text = 7
        /\ isLargeFile(7)
        /\ splitTextIntoChunks(Corpus[7], CHUNK_SIZE) = <<Corpus[7]>>
        /\ tasks[l].calls = <<1>>
        /\ tasks[l].pc = "Done"
        /\ fs[Code(l), tasks[l].doc].kind = "translation"

\* ------------------------------------------------------------ the chunk loop: claims

\* C35: once the call for a chunk of a task has failed, no call for a later
\* chunk of the task is dispatched: the step in which the call fails ends
\* the task with the calls it had made and none in flight, and a task that
\* has failed makes no call afterwards.
C35_NoCallAfterFailedChunk ==
    [][\A l \in DOMAIN tasks :
        /\ (\E c \in 0..MaxCalls, resp \in Responses :
                translateTextThrows(resp) /\ TranslateReturn(l, c, resp))
            => /\ tasks'[l].pc = "Failed"
               /\ tasks'[l].calls = tasks[l].calls
               /\ tasks'[l].inflight = {}
        /\ tasks[l].pc = "Failed" /\ tasks'[l].doc = tasks[l].doc
            => /\ tasks'[l].calls = tasks[l].calls
               /\ tasks'[l].inflight = {}]_vars

\* The call for the second chunk of a document of three chunks or more has
\* failed, the run is over and the third chunk was never sent.
C35_Witness ==
    /\ mainPc = "finished"
    /\ \E l \in LanguageTasks :
          /\ tasks[l].pc = "Failed"
          /\ tasks[l].err = "translate"
          /\ tasks[l].calls = <<1, 2>>
          /\ ChunkCount[files[tasks[l].doc].text] >= 3

\* ------------------------------------------------------------ termination: claims

\* The run is over: main() has left the file loop at its end, or has
\* exited on a broken configuration before the loop, and no task is on its
\* way.
RunOver ==
    /\ mainPc = (IF configOk THEN "finished" ELSE "exit1")
    /\ \A l \in LanguageTasks : IsSettled(tasks[l])

\* C36: when every external operation returns, the run terminates: main()
\* leaves a document only when every task of the document is in a terminal
\* state, and the file loop reaches its end with every task of the last
\* document in a terminal state, for good.
C36_RunTerminates ==
    /\ [][fileIdx' # fileIdx \/ mainPc' # mainPc
            => \/ mainPc' = "awaitBatch"
               \/ \A l \in LanguageTasks : IsSettled(tasks[l])]_vars
    /\ <>[]RunOver

\* The run has ended after the last document, whose tasks did work: one
\* is Done and one has Failed.
C36_Witness ==
    /\ RunOver
    /\ fileIdx = Len(files)
    /\ fileIdx = NumDocs
    /\ unreadable = {}
    /\ \E l \in LanguageTasks : tasks[l].pc = "Done" /\ tasks[l].calls # <<>>
    /\ \E l \in LanguageTasks : tasks[l].pc = "Failed"

\* ------------------------------------------------------------ a call that never returns: claims

\* The tasks that wait for a translation call to return.
Calling == { l \in LanguageTasks : tasks[l].inflight # {} }

\* C37: a translation call that has not returned blocks more than its own
\* task: while the call is out, main() waits for the group of the task at
\* the document of the task, no task of a later group has been started, and
\* no step starts one or takes the file loop to another document.
C37_PendingCallBlocksLaterWork ==
    /\ [](\A l \in Calling :
            /\ mainPc = "awaitBatch"
            /\ fileIdx = tasks[l].doc
            /\ \A m \in LanguageTasks : Group(m) > Group(l) => ~Started(tasks[m]))
    /\ [][\A l \in Calling :
            tasks'[l].inflight = tasks[l].inflight
                => /\ fileIdx' = fileIdx
                   /\ \A m \in LanguageTasks :
                         Group(m) > Group(l) => tasks'[m] = tasks[m]]_vars

\* A call of a task of the first group of the first document is out, every
\* other task of the group has settled, one of them after a call of its
\* own, and the task of the second group has not been started.
C37_Witness ==
    /\ fileIdx = 1
    /\ Len(files) > 1
    /\ \E l \in Calling :
          /\ Group(l) = 0
          /\ \A m \in LanguageTasks \ {l} : Group(m) = 0 => IsSettled(tasks[m])
          /\ \E m \in LanguageTasks : Group(m) > 0 /\ tasks[m].pc = "Pending"

\* ------------------------------------------------------------ the two variants: claims

\* C38: a run never modifies an output file that existed when the run
\* started: every destination that held a file at the start holds the same
\* content, for every language, the source language included.
C38_ExistingFilesKept ==
    \A c \in AllCodes, d \in DocIds :
        Exists(fsAtStart, c, d) => fs[c, d] = fsAtStart[c, d]

\* The sequential variant has finished, and the file that was at the
\* destination of the source language at the start is now a copy of the
\* source.
C38_Witness ==
    /\ script = "translateSeq"
    /\ mainPc = "finished"
    /\ \E d \in DocIds :
          /\ fsAtStart["en", d] = OldFile
          /\ fs["en", d] = SourceCopy(d)

\* The iterations and tasks that have come to their decision.
Decided ==
    { l \in Constructed :
        tasks[l].pc \notin {"Pending", "mkdir", "access"} /\ tasks[l].err # "mkdir" }

\* What was decided for a pair: it was skipped, the source was copied, or
\* the text was sent for translation.
Outcome(t) ==
    IF t.pc \in {"SkippedExists", "SkippedNoTranslate"} THEN "skipped"
    ELSE IF t.calls # <<>> THEN "translated"
    ELSE "copied"

\* The outcome translateMd.js decides (lines 261-280) for an entry of the
\* language map and a destination.
OutcomeOfTask(exists, instr, code) ==
    LET what == Decide(exists, instr, code)
    IN  IF what \in {"SkippedExists", "SkippedNoTranslate"} THEN "skipped"
        ELSE IF what = "copy" THEN "copied"
        ELSE "translated"

\* C39: for Markdown documents no longer than the threshold both variants
\* decide the same outcome for every pair: whichever variant runs, what is
\* decided for a pair is what the task of translateMd.js decides from the
\* entry of the language map and the output tree the run started with, and
\* a file is created only for a pair that is copied or translated.
C39_SameOutcomes ==
    /\ \A l \in Decided :
          Outcome(tasks[l])
              = OutcomeOfTask(Exists(fsAtStart, Code(l), tasks[l].doc), Instr(l), Code(l))
    /\ \A l \in Constructed :
          fs[Code(l), tasks[l].doc] # fsAtStart[Code(l), tasks[l].doc]
              => OutcomeOfTask(Exists(fsAtStart, Code(l), tasks[l].doc), Instr(l), Code(l))
                    # "skipped"

\* The sequential variant has copied the source for the entry of the source
\* language whose instruction is not to translate, into an empty tree.
C39_Witness ==
    /\ script = "translateSeq"
    /\ \E l \in Decided :
          /\ Code(l) = "en"
          /\ Instr(l) = "don't translate"
          /\ tasks[l].pc = "Done"
          /\ ~Exists(fsAtStart, "en", tasks[l].doc)
          /\ fs["en", tasks[l].doc] = SourceCopy(tasks[l].doc)

====
